---------------------------- MODULE Spec2Model ----------------------------
(***************************************************************************)
(* A model of the RDM core of OLA: the response status classifier and the  *)
(* RDMAPI response handlers (common/rdm/RDMAPI.cpp), the RDMAPI request    *)
(* operations, and the transaction sequencer and discovery engine behind   *)
(* the Ja Rule widget (plugins/usbdmx/JaRuleWidgetImpl.h), and the request *)
(* checks and UID label resolution of the RDM HTTP module                  *)
(* (RDMHttpModule.cpp).                                                    *)
(***************************************************************************)
EXTENDS Integers, Sequences, FiniteSets, Bags, TLC

VARIABLES
  \* ---- response handlers (RDMAPI.cpp, handlers section)
  status,        \* the RDMAPIImplResponseStatus handed to the handler
  data,          \* the response payload, a sequence of bytes
  host_le,       \* TRUE when the host's native byte order is little-endian
  delivered,     \* what the caller's continuation was run with
  \* ---- request operations (RDMAPI.cpp, Get... / Set...)
  api_call,      \* the operation called and its arguments
  api_ret,       \* the operation's return value
  api_error,     \* the caller's error string
  impl_sent,     \* requests handed to the RDMAPIImplInterface, in order
  \* ---- transaction sequencer
  inflight,      \* the in-flight transaction: <<>> or <<submission>>
  queue,         \* FIFO of submissions accepted while one is in flight
  txn,           \* the 8-bit transaction number
  wire,          \* frames handed to the transport and not yet answered
  completions,   \* the continuations run so far: [id, kind, status], in order
  next_id,       \* the id of the next submission
  detached,      \* the transport reported the device gone
  \* ---- discovery engine and the bus it walks
  devices,       \* UIDs of the devices on the bus
  muted,         \* devices that are currently muted
  deaf,          \* devices whose Mute never succeeds
  ranges,        \* the stack of unexplored [lower, upper] ranges
  found,         \* the accumulated discovered set
  dstate,        \* "idle", "unmuting", "branching", "muting", "done"
  cur,           \* the range being probed: <<>> or <<range>>
  target,        \* the UID being muted: <<>> or <<uid>>
  result,        \* the UID set delivered to the discovery callback
  unmute_error,  \* UnMuteAll ended in TransportError
  last_done,     \* what the engine's continuation was last run with
  faulty,        \* TRUE when the transport may fail an UnMuteAll
  \* ---- RDM HTTP module (RDMHttpModule.cpp)
  json_req,        \* the HTTP request being served and its url parameters
  json_resp,       \* what the JSON handler did with it
  m_universe_uids, \* universe id -> its uid_resolution_state
  outstanding      \* label requests sent and not yet answered, a bag

handlerVars == <<status, data, host_le, delivered>>
apiVars == <<api_call, api_ret, api_error, impl_sent>>
seqVars == <<inflight, queue, txn, wire, completions, next_id, detached>>
discVars == <<devices, muted, deaf, ranges, found, dstate, cur, target,
              result, unmute_error, last_done, faulty>>
httpVars == <<json_req, json_resp, m_universe_uids, outstanding>>
vars == <<handlerVars, apiVars, seqVars, discVars, httpVars>>

None == "None"

(***************************************************************************)
(* Bounds of the model.                                                    *)
(***************************************************************************)
MaxLen == 4

\* Byte values the payloads are drawn from: zero, a small value, and a value
\* with the top bit set.
ByteValues == {0, 1, 255}

RECURSIVE SeqsUpTo(_, _)
SeqsUpTo(S, n) ==
  IF n = 0 THEN {<<>>}
  ELSE LET shorter == SeqsUpTo(S, n - 1)
       IN shorter \cup {Append(s, b) : s \in {t \in shorter : Len(t) = n - 1},
                                       b \in S}

\* The length of the longest payload tried.
MaxLongLen == 53

\* Payloads longer than MaxLen: all zeros, all 0xff, and the bytes 1, 2, 3, ...
LongPayloads ==
  {[i \in 1..n |-> b] : n \in (MaxLen + 1)..MaxLongLen, b \in {0, 255}}
  \cup {[i \in 1..n |-> i] : n \in (MaxLen + 1)..MaxLongLen}

Payloads == SeqsUpTo(ByteValues, MaxLen) \cup LongPayloads

(***************************************************************************)
(* Response types of an RDM response (ola/rdm/RDMEnums.h).                 *)
(***************************************************************************)
ACK == "ACK"
ACK_TIMER == "ACK_TIMER"
NACK_REASON == "NACK_REASON"
ACK_OVERFLOW == "ACK_OVERFLOW"
ResponseTypes == {ACK, ACK_TIMER, NACK_REASON, ACK_OVERFLOW}

VALID_RESPONSE == "VALID_RESPONSE"
TRANSPORT_ERROR == "TRANSPORT_ERROR"
BROADCAST_REQUEST == "BROADCAST_REQUEST"
REQUEST_NACKED == "REQUEST_NACKED"
MALFORMED_RESPONSE == "MALFORMED_RESPONSE"

\* The error strings a transport reports; "" is no error.
TransportErrors == {"", "Request timed out"}

ImplStatuses ==
  [error : TransportErrors, was_broadcast : BOOLEAN,
   response_type : ResponseTypes]

\* sizeof(m_nack_reason), a uint16_t
NackReasonSize == 2

(***************************************************************************)
(* ResponseStatus::ResponseStatus(status, data)                            *)
(***************************************************************************)
\* The constructor with the broadcast test after the NACK test.
ResponseStatus_NackFirst(st, d) ==
  IF st.error # ""
    THEN [type |-> TRANSPORT_ERROR, nack_reason |-> 0, error |-> st.error]
    ELSE IF st.response_type = NACK_REASON
      THEN IF Len(d) < NackReasonSize
        THEN [type |-> MALFORMED_RESPONSE, nack_reason |-> 0,
              error |-> "NACK_REASON data too small"]
        ELSE [type |-> REQUEST_NACKED,
              nack_reason |-> (d[1] * 256 + d[2]) % 65536, error |-> ""]
      ELSE IF st.was_broadcast
        THEN [type |-> BROADCAST_REQUEST, nack_reason |-> 0, error |-> ""]
        ELSE [type |-> VALID_RESPONSE, nack_reason |-> 0, error |-> ""]

\* A byte read through a signed char: 0x80..0xff are negative.
SignedChar(b) == IF b >= 128 THEN b - 256 ELSE b

\* The constructor reading the reason bytes through a plain char pointer.
ResponseStatus_SignedShort(st, d) ==
  IF st.error # ""
    THEN [type |-> TRANSPORT_ERROR, nack_reason |-> 0, error |-> st.error]
    ELSE IF st.was_broadcast
      THEN [type |-> BROADCAST_REQUEST, nack_reason |-> 0, error |-> ""]
      ELSE IF st.response_type = NACK_REASON
        THEN IF Len(d) < NackReasonSize
          THEN [type |-> MALFORMED_RESPONSE, nack_reason |-> 0,
                error |-> "NACK_REASON data too small"]
          ELSE [type |-> REQUEST_NACKED,
                nack_reason |->
                  (SignedChar(d[1]) * 256 + SignedChar(d[2])) % 65536,
                error |-> ""]
        ELSE [type |-> VALID_RESPONSE, nack_reason |-> 0, error |-> ""]

ResponseStatus(st, d) ==
  IF st.error # ""
    THEN [type |-> TRANSPORT_ERROR, nack_reason |-> 0, error |-> st.error]
    ELSE IF st.was_broadcast
      THEN [type |-> BROADCAST_REQUEST, nack_reason |-> 0, error |-> ""]
      ELSE IF st.response_type = NACK_REASON
        THEN IF Len(d) < NackReasonSize
          THEN [type |-> MALFORMED_RESPONSE, nack_reason |-> 0,
                error |-> "NACK_REASON data too small"]
          ELSE [type |-> REQUEST_NACKED,
                \* (ptr[0] << 8) + ptr[1], stored in a uint16_t
                nack_reason |-> (d[1] * 256 + d[2]) % 65536,
                error |-> ""]
        ELSE [type |-> VALID_RESPONSE, nack_reason |-> 0, error |-> ""]

\* ResponseStatus::MalformedResponse(error)
MalformedResponse(rs, msg) ==
  [rs EXCEPT !.type = MALFORMED_RESPONSE, !.error = msg]

\* RDMAPI::SetIncorrectPDL(status, actual, expected)
SetIncorrectPDL(rs, actual, expected) ==
  MalformedResponse(rs, "PDL mismatch, " \o ToString(actual) \o " != " \o
                        ToString(expected) \o " (expected)")


(***************************************************************************)
(* Byte order helpers.  A multi-byte field copied out of the payload with  *)
(* memcpy or a pointer cast holds the host-order reading of its bytes;     *)
(* NetworkToHost then swaps the bytes on a little-endian host.             *)
(***************************************************************************)
HostU16(b0, b1) == IF host_le THEN b0 + 256 * b1 ELSE 256 * b0 + b1

\* A 32-bit value is kept as <<high 16 bits, low 16 bits>>.
HostU32(b0, b1, b2, b3) ==
  IF host_le THEN <<b2 + 256 * b3, b0 + 256 * b1>>
             ELSE <<256 * b0 + b1, 256 * b2 + b3>>

Swap16(x) == (x % 256) * 256 + (x \div 256)

Swap32(x) == <<Swap16(x[2]), Swap16(x[1])>>

NetworkToHost16(x) == IF host_le THEN Swap16(x) ELSE x
NetworkToHost32(x) == IF host_le THEN Swap32(x) ELSE x

\* UID::UID(const uint8_t *data): a 16-bit manufacturer id and a 32-bit device
\* id, both big-endian on the wire.  The device id is kept as
\* <<high 16 bits, low 16 bits>>.
UIDFromBytes(d, i) ==
  [esta |-> 256 * d[i] + d[i + 1],
   device |-> <<256 * d[i + 2] + d[i + 3], 256 * d[i + 4] + d[i + 5]>>]

\* UID::UID_SIZE
UID_SIZE == 6

(***************************************************************************)
(* The response handlers.  Each returns what it runs the caller's          *)
(* continuation with: the status, and the decoded values (numbers, flags,  *)
(* a list, a string); classified is the status as first constructed.       *)
(***************************************************************************)
Outcome(rs0, rs, nums, flags, list, text) ==
  [classified |-> rs0, rs |-> rs, nums |-> nums, flags |-> flags,
   list |-> list, text |-> text, runs |-> 1]

\* MAX_DATA_SIZE of _HandleLabelResponse
LabelMaxDataSize == 32

\* The handler rejecting a payload of exactly MAX_DATA_SIZE bytes.
HandleLabelResponse_OffByOne(st, d) ==
  LET rs == ResponseStatus(st, d)
  IN IF rs.type = VALID_RESPONSE /\ Len(d) >= LabelMaxDataSize
       THEN Outcome(rs, MalformedResponse(rs, "PDL needs to be <= " \o
                      ToString(LabelMaxDataSize) \o ", was " \o
                      ToString(Len(d))),
                    <<>>, <<>>, <<>>, d)
       ELSE Outcome(rs, rs, <<>>, <<>>, <<>>, d)

HandleLabelResponse(st, d) ==
  LET rs == ResponseStatus(st, d)
  IN IF rs.type = VALID_RESPONSE /\ Len(d) > LabelMaxDataSize
       THEN Outcome(rs, MalformedResponse(rs, "PDL needs to be <= " \o
                      ToString(LabelMaxDataSize) \o ", was " \o
                      ToString(Len(d))),
                    <<>>, <<>>, <<>>, d)
       ELSE Outcome(rs, rs, <<>>, <<>>, <<>>, d)

\* The handler checking the length whatever the status is.
HandleEmptyResponse_NoStatusTest(st, d) ==
  LET rs == ResponseStatus(st, d)
  IN IF Len(d) # 0
       THEN Outcome(rs, SetIncorrectPDL(rs, Len(d), 0), <<>>, <<>>, <<>>, <<>>)
       ELSE Outcome(rs, rs, <<>>, <<>>, <<>>, <<>>)

\* The handler delivering the classified status whatever the length is.
HandleEmptyResponse_NoLengthTest(st, d) ==
  LET rs == ResponseStatus(st, d)
  IN Outcome(rs, rs, <<>>, <<>>, <<>>, <<>>)

HandleEmptyResponse(st, d) ==
  LET rs == ResponseStatus(st, d)
  IN IF rs.type = VALID_RESPONSE /\ Len(d) # 0
       THEN Outcome(rs, SetIncorrectPDL(rs, Len(d), 0), <<>>, <<>>, <<>>, <<>>)
       ELSE Outcome(rs, rs, <<>>, <<>>, <<>>, <<>>)

\* DATA_SIZE of _HandleGetProxiedDeviceCount
ProxiedDeviceCountSize == 3

HandleGetProxiedDeviceCount(st, d) ==
  LET rs == ResponseStatus(st, d)
  IN IF rs.type = VALID_RESPONSE
       THEN IF Len(d) >= ProxiedDeviceCountSize
         \* memcpy into {uint16_t device_count; uint8_t list_change}, no
         \* byte-order conversion
         THEN Outcome(rs, rs, <<HostU16(d[1], d[2])>>, <<d[3] # 0>>,
                      <<>>, <<>>)
         ELSE Outcome(rs, SetIncorrectPDL(rs, Len(d), ProxiedDeviceCountSize),
                      <<0>>, <<FALSE>>, <<>>, <<>>)
       ELSE Outcome(rs, rs, <<0>>, <<FALSE>>, <<>>, <<>>)

\* The handler decoding the whole records of any payload.
HandleGetProxiedDevices_Truncating(st, d) ==
  LET rs == ResponseStatus(st, d)
  IN IF rs.type = VALID_RESPONSE
       THEN Outcome(rs, rs, <<>>, <<>>,
                    [k \in 1..(Len(d) \div UID_SIZE) |->
                       UIDFromBytes(d, (k - 1) * UID_SIZE + 1)],
                    <<>>)
       ELSE Outcome(rs, rs, <<>>, <<>>, <<>>, <<>>)

HandleGetProxiedDevices(st, d) ==
  LET rs == ResponseStatus(st, d)
      data_size == Len(d)
  IN IF rs.type = VALID_RESPONSE
       THEN IF data_size % UID_SIZE = 0
         THEN Outcome(rs, rs, <<>>, <<>>,
                      [k \in 1..(data_size \div UID_SIZE) |->
                         UIDFromBytes(d, (k - 1) * UID_SIZE + 1)],
                      <<>>)
         ELSE Outcome(rs, MalformedResponse(rs, "PDL size not a multiple of "
                        \o ToString(UID_SIZE) \o " : " \o ToString(data_size)),
                      <<>>, <<>>, <<>>, <<>>)
       ELSE Outcome(rs, rs, <<>>, <<>>, <<>>, <<>>)

\* sizeof(status_type), a uint8_t
SubDeviceReportingSize == 1

HandleGetSubDeviceReporting(st, d) ==
  LET rs == ResponseStatus(st, d)
  IN IF rs.type = VALID_RESPONSE
       THEN IF Len(d) = SubDeviceReportingSize
         THEN Outcome(rs, rs, <<d[1]>>, <<>>, <<>>, <<>>)
         ELSE Outcome(rs, SetIncorrectPDL(rs, Len(d), SubDeviceReportingSize),
                      <<0>>, <<>>, <<>>, <<>>)
       ELSE Outcome(rs, rs, <<0>>, <<>>, <<>>, <<>>)

\* DATA_SIZE of _HandleGetFactoryDefaults
FactoryDefaultsSize == 1

HandleGetFactoryDefaults(st, d) ==
  LET rs == ResponseStatus(st, d)
  IN IF rs.type = VALID_RESPONSE
       THEN IF Len(d) = FactoryDefaultsSize
         THEN Outcome(rs, rs, <<>>, <<d[1] # 0>>, <<>>, <<>>)
         ELSE Outcome(rs, SetIncorrectPDL(rs, Len(d), FactoryDefaultsSize),
                      <<>>, <<FALSE>>, <<>>, <<>>)
       ELSE Outcome(rs, rs, <<>>, <<FALSE>>, <<>>, <<>>)

\* DATA_SIZE of _HandleGetBootSoftwareVersion
BootSoftwareVersionSize == 4

HandleGetBootSoftwareVersion(st, d) ==
  LET rs == ResponseStatus(st, d)
  IN IF rs.type = VALID_RESPONSE
       THEN IF Len(d) # BootSoftwareVersionSize
         THEN Outcome(rs, SetIncorrectPDL(rs, Len(d), BootSoftwareVersionSize),
                      <<0, 0>>, <<>>, <<>>, <<>>)
         ELSE Outcome(rs, rs,
                      NetworkToHost32(HostU32(d[1], d[2], d[3], d[4])),
                      <<>>, <<>>, <<>>)
       ELSE Outcome(rs, rs, <<0, 0>>, <<>>, <<>>, <<>>)

\* DATA_SIZE of _HandleGetDMXPersonality
DMXPersonalitySize == 2

HandleGetDMXPersonality(st, d) ==
  LET rs == ResponseStatus(st, d)
  IN IF rs.type = VALID_RESPONSE
       THEN IF Len(d) # DMXPersonalitySize
         THEN Outcome(rs, SetIncorrectPDL(rs, Len(d), DMXPersonalitySize),
                      <<0, 0>>, <<>>, <<>>, <<>>)
         ELSE Outcome(rs, rs, <<d[1], d[2]>>, <<>>, <<>>, <<>>)
       ELSE Outcome(rs, rs, <<0, 0>>, <<>>, <<>>, <<>>)

\* DATA_SIZE of _HandleGetDMXAddress
DMXAddressSize == 2

HandleGetDMXAddress(st, d) ==
  LET rs == ResponseStatus(st, d)
  IN IF rs.type = VALID_RESPONSE
       THEN IF Len(d) # DMXAddressSize
         THEN Outcome(rs, SetIncorrectPDL(rs, Len(d), DMXAddressSize),
                      <<0>>, <<>>, <<>>, <<>>)
         ELSE Outcome(rs, rs, <<NetworkToHost16(HostU16(d[1], d[2]))>>,
                      <<>>, <<>>, <<>>)
       ELSE Outcome(rs, rs, <<0>>, <<>>, <<>>, <<>>)

\* DATA_SIZE of _HandleGetLanguage
LanguageDataSize == 2

\* The handler accepting a longer payload.
HandleGetLanguage_AtLeast(st, d) ==
  LET rs == ResponseStatus(st, d)
  IN IF rs.type = VALID_RESPONSE /\ Len(d) < LanguageDataSize
       THEN Outcome(rs, SetIncorrectPDL(rs, Len(d), LanguageDataSize),
                    <<>>, <<>>, <<>>, d)
       ELSE Outcome(rs, rs, <<>>, <<>>, <<>>, d)

HandleGetLanguage(st, d) ==
  LET rs == ResponseStatus(st, d)
  IN IF rs.type = VALID_RESPONSE /\ Len(d) # LanguageDataSize
       THEN Outcome(rs, SetIncorrectPDL(rs, Len(d), LanguageDataSize),
                    <<>>, <<>>, <<>>, d)
       ELSE Outcome(rs, rs, <<>>, <<>>, <<>>, d)

\* A big-endian 16-bit field of the payload at index i (from 1), copied out
\* with memcpy and passed through NetworkToHost.
U16At(d, i) == NetworkToHost16(HostU16(d[i], d[i + 1]))

\* The same for a 32-bit field, as <<high 16 bits, low 16 bits>>.
U32At(d, i) == NetworkToHost32(HostU32(d[i], d[i + 1], d[i + 2], d[i + 3]))

\* What a local record holds when it is declared without an initialiser and
\* nothing is copied into it: any value.  Two are tried.
JunkValues == {0, 165}

Uninitialised(n, junk) == [i \in 1..n |-> junk]

\* sizeof(DeviceDescriptor): protocol_version, device_model,
\* product_category (16 bits each), software_version (32), dmx_footprint,
\* dmx_personality, dmx_start_address, sub_device_count (16 each),
\* sensor_count (8), packed.
DeviceDescriptorSize == 19

\* The number of values kept for a DeviceDescriptor: one per field, two for
\* the 32-bit software_version.
DeviceDescriptorFields == 10

\* device_info is a local without initialiser; junk is what it holds when
\* the handler copies nothing into it.
HandleGetDeviceDescriptor(st, d, junk) ==
  LET rs == ResponseStatus(st, d)
  IN IF rs.type = VALID_RESPONSE
       THEN IF Len(d) = DeviceDescriptorSize
         THEN Outcome(rs, rs,
                      <<U16At(d, 1), U16At(d, 3), U16At(d, 5)>> \o
                      U32At(d, 7) \o
                      <<U16At(d, 11), U16At(d, 13), U16At(d, 15),
                        U16At(d, 17), d[19]>>,
                      <<>>, <<>>, <<>>)
         ELSE Outcome(rs, SetIncorrectPDL(rs, Len(d), DeviceDescriptorSize),
                      Uninitialised(DeviceDescriptorFields, junk),
                      <<>>, <<>>, <<>>)
       ELSE Outcome(rs, rs, Uninitialised(DeviceDescriptorFields, junk),
                    <<>>, <<>>, <<>>)

\* sizeof(SensorValueDescriptor): sensor_number (8 bits), present_value,
\* lowest, highest, recorded (16 each), packed.
SensorValueDescriptorSize == 9
SensorValueDescriptorFields == 5

HandleSensorValue(st, d, junk) ==
  LET rs == ResponseStatus(st, d)
  IN IF rs.type = VALID_RESPONSE
       THEN IF Len(d) = SensorValueDescriptorSize
         THEN Outcome(rs, rs,
                      <<d[1], U16At(d, 2), U16At(d, 4), U16At(d, 6),
                        U16At(d, 8)>>,
                      <<>>, <<>>, <<>>)
         ELSE Outcome(rs,
                      SetIncorrectPDL(rs, Len(d), SensorValueDescriptorSize),
                      Uninitialised(SensorValueDescriptorFields, junk),
                      <<>>, <<>>, <<>>)
       ELSE Outcome(rs, rs, Uninitialised(SensorValueDescriptorFields, junk),
                    <<>>, <<>>, <<>>)

\* DATA_SIZE of _HandleGetCommStatus
CommStatusSize == 6

HandleGetCommStatus(st, d) ==
  LET rs == ResponseStatus(st, d)
  IN IF rs.type = VALID_RESPONSE
       THEN IF Len(d) >= CommStatusSize
         \* memcpy into three uint16_t fields, no byte-order conversion
         THEN Outcome(rs, rs,
                      <<HostU16(d[1], d[2]), HostU16(d[3], d[4]),
                        HostU16(d[5], d[6])>>,
                      <<>>, <<>>, <<>>)
         ELSE Outcome(rs, SetIncorrectPDL(rs, Len(d), CommStatusSize),
                      <<0, 0, 0>>, <<>>, <<>>, <<>>)
       ELSE Outcome(rs, rs, <<0, 0, 0>>, <<>>, <<>>, <<>>)

\* LABEL_SIZE: the longest label, in bytes.
LABEL_SIZE == 32

\* The status set when a length is outside [min, max].
OutOfRange(rs, n, min, max) ==
  MalformedResponse(rs, ToString(n) \o " needs to be between " \o
                        ToString(min) \o " and " \o ToString(max))

\* std::string(raw_description.description, LABEL_SIZE) after the payload d
\* was copied over a raw record with a header of h bytes: always LABEL_SIZE
\* characters, those past the end of the payload being whatever the
\* uninitialised raw record held.
WholeLabel(d, h, junk) ==
  [i \in 1..LABEL_SIZE |-> IF h + i <= Len(d) THEN d[h + i] ELSE junk]

\* The copy that stops at the end of the payload.
ReceivedLabel(d, h, junk) == SubSeq(d, h + 1, Len(d))

\* sizeof(param_description) - 1 - LABEL_SIZE
ParameterDescriptionHeader == 20
ParameterDescriptorFields == 13

\* description is a local without initialiser, and its field `type` is never
\* assigned.  description.description[LABEL_SIZE] = 0 writes past the end of
\* an empty string: the handler goes on (survives) or the process dies
\* before the continuation is run.
HandleGetParameterDescriptor(st, d, junk, survives) ==
  LET rs == ResponseStatus(st, d)
      min == ParameterDescriptionHeader
      max == ParameterDescriptionHeader + LABEL_SIZE
  IN IF rs.type = VALID_RESPONSE
       THEN IF Len(d) >= min /\ Len(d) <= max
         THEN [Outcome(rs, rs,
                       <<U16At(d, 1), d[3], d[4], d[5], junk, d[7], d[8]>> \o
                       U32At(d, 9) \o U32At(d, 13) \o U32At(d, 17),
                       <<>>, <<>>, WholeLabel(d, min, junk))
               EXCEPT !.runs = IF survives THEN 1 ELSE 0]
         ELSE Outcome(rs, OutOfRange(rs, Len(d), min, max),
                      Uninitialised(ParameterDescriptorFields, junk),
                      <<>>, <<>>, <<>>)
       ELSE Outcome(rs, rs, Uninitialised(ParameterDescriptorFields, junk),
                    <<>>, <<>>, <<>>)

\* sizeof(personality_description) - 1 - LABEL_SIZE
PersonalityDescriptionHeader == 3

\* The handler with the lower bound one byte too high.
HandleGetDMXPersonalityDescription_MinOff(st, d, junk) ==
  LET rs == ResponseStatus(st, d)
      min == PersonalityDescriptionHeader
      max == PersonalityDescriptionHeader + LABEL_SIZE
  IN IF rs.type = VALID_RESPONSE
       THEN IF Len(d) > min /\ Len(d) <= max
         THEN Outcome(rs, rs, <<d[1], U16At(d, 2)>>, <<>>, <<>>,
                      WholeLabel(d, min, junk))
         ELSE Outcome(rs, OutOfRange(rs, Len(d), min, max), <<0, 0>>,
                      <<>>, <<>>, <<>>)
       ELSE Outcome(rs, rs, <<0, 0>>, <<>>, <<>>, <<>>)

HandleGetDMXPersonalityDescription(st, d, junk) ==
  LET rs == ResponseStatus(st, d)
      min == PersonalityDescriptionHeader
      max == PersonalityDescriptionHeader + LABEL_SIZE
  IN IF rs.type = VALID_RESPONSE
       THEN IF Len(d) >= min /\ Len(d) <= max
         THEN Outcome(rs, rs,
                      <<d[1], U16At(d, 2)>>, <<>>, <<>>,
                      WholeLabel(d, min, junk))
         ELSE Outcome(rs, OutOfRange(rs, Len(d), min, max), <<0, 0>>,
                      <<>>, <<>>, <<>>)
       ELSE Outcome(rs, rs, <<0, 0>>, <<>>, <<>>, <<>>)

\* sizeof(slot_description) - 1 - LABEL_SIZE
SlotDescriptionHeader == 2

HandleGetSlotDescription(st, d, junk) ==
  LET rs == ResponseStatus(st, d)
      min == SlotDescriptionHeader
      max == SlotDescriptionHeader + LABEL_SIZE
  IN IF rs.type = VALID_RESPONSE
       THEN IF Len(d) >= min /\ Len(d) <= max
         THEN Outcome(rs, rs, <<U16At(d, 1)>>, <<>>, <<>>,
                      WholeLabel(d, min, junk))
         ELSE Outcome(rs, OutOfRange(rs, Len(d), min, max), <<0>>,
                      <<>>, <<>>, <<>>)
       ELSE Outcome(rs, rs, <<0>>, <<>>, <<>>, <<>>)

\* sizeof(sensor_definition_s) - 1 - LABEL_SIZE
SensorDefinitionHeader == 13
SensorDescriptorFields == 9

\* sensor is a local without initialiser; its description is
\* std::string(raw_description.description, data_size - min).
HandleGetSensorDefinition(st, d, junk) ==
  LET rs == ResponseStatus(st, d)
      min == SensorDefinitionHeader
      max == SensorDefinitionHeader + LABEL_SIZE
  IN IF rs.type = VALID_RESPONSE
       THEN IF Len(d) >= min /\ Len(d) <= max
         THEN Outcome(rs, rs,
                      <<d[1], d[2], d[3], d[4], U16At(d, 5), U16At(d, 7),
                        U16At(d, 9), U16At(d, 11), d[13]>>,
                      <<>>, <<>>, ReceivedLabel(d, min, junk))
         ELSE Outcome(rs, OutOfRange(rs, Len(d), min, max),
                      Uninitialised(SensorDescriptorFields, junk),
                      <<>>, <<>>, <<>>)
       ELSE Outcome(rs, rs, Uninitialised(SensorDescriptorFields, junk),
                    <<>>, <<>>, <<>>)

\* sizeof(struct status_message): nine uint8_t fields
StatusMessageSize == 9

\* hi << 8 + lo, which C++ reads as hi << (8 + lo), stored in 16 bits.  A
\* shift that overflows int has no defined value.
ShiftedField(hi, lo, junk) ==
  IF lo < 8 THEN (hi * 2 ^ (8 + lo)) % 65536
  ELSE IF lo < 16 THEN 0
  ELSE junk

StatusMessageAt(d, i, junk) ==
  [sub_device |-> ShiftedField(d[i], d[i + 1], junk),
   status_type |-> d[i + 2],
   message_id |-> ShiftedField(d[i + 3], d[i + 4], junk),
   value_1 |-> ShiftedField(d[i + 5], d[i + 6], junk),
   value_2 |-> ShiftedField(d[i + 7], d[i + 8], junk)]

HandleGetStatusMessage(st, d, junk) ==
  LET rs == ResponseStatus(st, d)
      data_size == Len(d)
  IN IF rs.type = VALID_RESPONSE
       THEN IF data_size % StatusMessageSize = 0
         THEN Outcome(rs, rs, <<>>, <<>>,
                      [k \in 1..(data_size \div StatusMessageSize) |->
                         StatusMessageAt(d, (k - 1) * StatusMessageSize + 1,
                                         junk)],
                      <<>>)
         ELSE Outcome(rs, MalformedResponse(rs, "PDL size not a multiple of "
                        \o ToString(StatusMessageSize) \o " : " \o
                        ToString(data_size)),
                      <<>>, <<>>, <<>>, <<>>)
       ELSE Outcome(rs, rs, <<>>, <<>>, <<>>, <<>>)

\* sizeof(uint16_t), the size of one PID
PidSize == 2

\* The uint16_t read through ptr at element k (from 1) of the payload seen
\* as an array of uint16_t; an element past the end of the payload holds
\* whatever follows the string in memory.
PidElement(d, k, junk) ==
  IF PidSize * k <= Len(d)
    THEN NetworkToHost16(HostU16(d[PidSize * k - 1], d[PidSize * k]))
    ELSE NetworkToHost16(HostU16(junk, junk))

\* for (ptr = start; ptr < start + data_size; ptr++) with start a
\* const uint16_t*: data_size elements are read, not data_size / 2.
HandleGetSupportedParameters(st, d, junk) ==
  LET rs == ResponseStatus(st, d)
      data_size == Len(d)
  IN IF rs.type = VALID_RESPONSE
       THEN IF data_size % PidSize = 0
         THEN Outcome(rs, rs, <<>>, <<>>,
                      [k \in 1..data_size |-> PidElement(d, k, junk)], <<>>)
         ELSE Outcome(rs, MalformedResponse(rs,
                        "PDL size not a multiple of 2 : " \o
                        ToString(data_size)),
                      <<>>, <<>>, <<>>, <<>>)
       ELSE Outcome(rs, rs, <<>>, <<>>, <<>>, <<>>)

\* The size of one language code
LanguageCodeSize == 2

HandleGetLanguageCapabilities(st, d) ==
  LET rs == ResponseStatus(st, d)
      data_size == Len(d)
  IN IF rs.type = VALID_RESPONSE
       THEN IF data_size % LanguageCodeSize # 0
         THEN Outcome(rs, MalformedResponse(rs,
                        "PDL needs to be a multiple of 2, was " \o
                        ToString(data_size)),
                      <<>>, <<>>, <<>>, <<>>)
         ELSE Outcome(rs, rs, <<>>, <<>>,
                      [k \in 1..(data_size \div LanguageCodeSize) |->
                         SubSeq(d, LanguageCodeSize * k - 1,
                                LanguageCodeSize * k)],
                      <<>>)
       ELSE Outcome(rs, rs, <<>>, <<>>, <<>>, <<>>)

\* The number of records a vector takes before push_back fails for want of
\* memory.
VectorRoom == 20

\* sizeof(SlotDescriptor): slot_offset (16 bits), slot_type (8),
\* slot_label (16), packed.
SlotDescriptorSize == 5

\* The record at offset ptr (from 0) of the payload.
SlotInfoAt(d, ptr) ==
  [slot_offset |-> U16At(d, ptr + 1), slot_type |-> d[ptr + 3],
   slot_label |-> U16At(d, ptr + 4)]

\* while (ptr < end) { memcpy; NetworkToHost; slots.push_back(slot_info); }
\* The body does not move ptr.  returned tells whether the loop was left.
RECURSIVE SlotInfoLoop(_, _, _, _)
SlotInfoLoop(d, ptr, slots, room) ==
  IF ptr < Len(d)
    THEN IF room = 0
      THEN [returned |-> FALSE, slots |-> slots]
      ELSE SlotInfoLoop(d, ptr, Append(slots, SlotInfoAt(d, ptr)), room - 1)
    ELSE [returned |-> TRUE, slots |-> slots]

HandleGetSlotInfo(st, d) ==
  LET rs == ResponseStatus(st, d)
      data_size == Len(d)
  IN IF rs.type = VALID_RESPONSE
       THEN IF data_size % SlotDescriptorSize # 0
         THEN Outcome(rs, MalformedResponse(rs, "PDL size not a multiple of "
                        \o ToString(SlotDescriptorSize) \o ", was " \o
                        ToString(data_size)),
                      <<>>, <<>>, <<>>, <<>>)
         ELSE LET r == SlotInfoLoop(d, 0, <<>>, VectorRoom)
              IN [Outcome(rs, rs, <<>>, <<>>, r.slots, <<>>)
                  EXCEPT !.runs = IF r.returned THEN 1 ELSE 0]
       ELSE Outcome(rs, rs, <<>>, <<>>, <<>>, <<>>)

\* sizeof(SlotDefault): slot_offset (16 bits), default_value (8), packed.
SlotDefaultSize == 3

SlotDefaultAt(d, ptr) ==
  [slot_offset |-> U16At(d, ptr + 1), default_value |-> d[ptr + 3]]

\* The same loop: the body does not move ptr.
RECURSIVE SlotDefaultLoop(_, _, _, _)
SlotDefaultLoop(d, ptr, slots, room) ==
  IF ptr < Len(d)
    THEN IF room = 0
      THEN [returned |-> FALSE, slots |-> slots]
      ELSE SlotDefaultLoop(d, ptr, Append(slots, SlotDefaultAt(d, ptr)),
                           room - 1)
    ELSE [returned |-> TRUE, slots |-> slots]

HandleGetSlotDefaultValues(st, d) ==
  LET rs == ResponseStatus(st, d)
      data_size == Len(d)
  IN IF rs.type = VALID_RESPONSE
       THEN IF data_size % SlotDefaultSize # 0
         THEN Outcome(rs, MalformedResponse(rs, "PDL size not a multiple of "
                        \o ToString(SlotDefaultSize) \o ", was " \o
                        ToString(data_size)),
                      <<>>, <<>>, <<>>, <<>>)
         ELSE LET r == SlotDefaultLoop(d, 0, <<>>, VectorRoom)
              IN [Outcome(rs, rs, <<>>, <<>>, r.slots, <<>>)
                  EXCEPT !.runs = IF r.returned THEN 1 ELSE 0]
       ELSE Outcome(rs, rs, <<>>, <<>>, <<>>, <<>>)

\* MAX_DETAIL_IDS of _HandleGetProductDetailIdList
MaxDetailIds == 6

\* The ids are pushed as read through a const uint16_t*, with no byte-order
\* conversion.
HandleGetProductDetailIdList(st, d) ==
  LET rs == ResponseStatus(st, d)
      data_size == Len(d)
  IN IF rs.type = VALID_RESPONSE
       THEN IF data_size > MaxDetailIds * PidSize
         THEN Outcome(rs, MalformedResponse(rs, "PDL needs to be <= " \o
                        ToString(MaxDetailIds * PidSize) \o ", was " \o
                        ToString(data_size)),
                      <<>>, <<>>, <<>>, <<>>)
         ELSE IF data_size % 2 # 0
           THEN Outcome(rs, MalformedResponse(rs,
                          "PDL needs to be a multiple of 2, was " \o
                          ToString(data_size)),
                        <<>>, <<>>, <<>>, <<>>)
           ELSE Outcome(rs, rs, <<>>, <<>>,
                        [k \in 1..(data_size \div PidSize) |->
                           HostU16(d[2 * k - 1], d[2 * k])],
                        <<>>)
       ELSE Outcome(rs, rs, <<>>, <<>>, <<>>, <<>>)

(***************************************************************************)
(* The handlers' specification: a completed transaction (status, data) is  *)
(* handed to one handler, which runs the caller's continuation.            *)
(***************************************************************************)
NotDelivered ==
  [h |-> None,
   classified |-> [type |-> None, nack_reason |-> 0, error |-> ""],
   rs |-> [type |-> None, nack_reason |-> 0, error |-> ""],
   nums |-> <<>>, flags |-> <<>>, list |-> <<>>, text |-> <<>>, runs |-> 0]

Deliver(name, o) ==
  [h |-> name, classified |-> o.classified, rs |-> o.rs, nums |-> o.nums,
   flags |-> o.flags, list |-> o.list, text |-> o.text, runs |-> o.runs]

ApiIdle ==
  /\ api_call = None
  /\ api_ret = FALSE
  /\ api_error = ""
  /\ impl_sent = <<>>

SeqIdle ==
  /\ inflight = <<>>
  /\ queue = <<>>
  /\ txn = 0
  /\ wire = {}
  /\ completions = <<>>
  /\ next_id = 1
  /\ detached = FALSE

HttpIdle ==
  /\ json_req = None
  /\ json_resp = None
  /\ m_universe_uids = <<>>
  /\ outstanding = EmptyBag

DiscIdle ==
  /\ devices = {}
  /\ muted = {}
  /\ deaf = {}
  /\ ranges = <<>>
  /\ found = {}
  /\ dstate = "idle"
  /\ cur = <<>>
  /\ target = <<>>
  /\ result = {}
  /\ unmute_error = FALSE
  /\ last_done = <<>>
  /\ faulty = FALSE

HandlersIdle ==
  /\ status = [error |-> "", was_broadcast |-> FALSE, response_type |-> ACK]
  /\ data = <<>>
  /\ host_le = TRUE
  /\ delivered = NotDelivered

InitHandlers ==
  /\ status \in ImplStatuses
  /\ data \in Payloads
  /\ host_le \in BOOLEAN
  /\ delivered = NotDelivered
  /\ ApiIdle
  /\ SeqIdle
  /\ HttpIdle
  /\ DiscIdle

RunHandler(name, o) ==
  /\ delivered.h = None
  /\ delivered' = Deliver(name, o)
  /\ UNCHANGED <<status, data, host_le, apiVars, seqVars, discVars,
                 httpVars>>

LabelResponse ==
  RunHandler("LabelResponse", HandleLabelResponse(status, data))
EmptyResponse ==
  RunHandler("EmptyResponse", HandleEmptyResponse(status, data))
GetProxiedDeviceCountResponse ==
  RunHandler("GetProxiedDeviceCount", HandleGetProxiedDeviceCount(status, data))
GetProxiedDevicesResponse ==
  RunHandler("GetProxiedDevices", HandleGetProxiedDevices(status, data))
GetSubDeviceReportingResponse ==
  RunHandler("GetSubDeviceReporting", HandleGetSubDeviceReporting(status, data))
GetFactoryDefaultsResponse ==
  RunHandler("GetFactoryDefaults", HandleGetFactoryDefaults(status, data))
GetBootSoftwareVersionResponse ==
  RunHandler("GetBootSoftwareVersion",
             HandleGetBootSoftwareVersion(status, data))
GetDMXPersonalityResponse ==
  RunHandler("GetDMXPersonality", HandleGetDMXPersonality(status, data))
GetDMXAddressResponse ==
  RunHandler("GetDMXAddress", HandleGetDMXAddress(status, data))

GetLanguageResponse ==
  RunHandler("GetLanguage", HandleGetLanguage(status, data))
GetDeviceDescriptorResponse ==
  \E junk \in JunkValues :
    RunHandler("GetDeviceDescriptor",
               HandleGetDeviceDescriptor(status, data, junk))
SensorValueResponse ==
  \E junk \in JunkValues :
    RunHandler("SensorValue", HandleSensorValue(status, data, junk))

GetCommStatusResponse ==
  RunHandler("GetCommStatus", HandleGetCommStatus(status, data))

GetParameterDescriptorResponse ==
  \E junk \in JunkValues, survives \in BOOLEAN :
    RunHandler("GetParameterDescriptor",
               HandleGetParameterDescriptor(status, data, junk, survives))
GetDMXPersonalityDescriptionResponse ==
  \E junk \in JunkValues :
    RunHandler("GetDMXPersonalityDescription",
               HandleGetDMXPersonalityDescription(status, data, junk))
GetSlotDescriptionResponse ==
  \E junk \in JunkValues :
    RunHandler("GetSlotDescription",
               HandleGetSlotDescription(status, data, junk))
GetSensorDefinitionResponse ==
  \E junk \in JunkValues :
    RunHandler("GetSensorDefinition",
               HandleGetSensorDefinition(status, data, junk))

GetStatusMessageResponse ==
  \E junk \in JunkValues :
    RunHandler("GetStatusMessage", HandleGetStatusMessage(status, data, junk))
GetSupportedParametersResponse ==
  \E junk \in JunkValues :
    RunHandler("GetSupportedParameters",
               HandleGetSupportedParameters(status, data, junk))
GetLanguageCapabilitiesResponse ==
  RunHandler("GetLanguageCapabilities",
             HandleGetLanguageCapabilities(status, data))

GetSlotInfoResponse ==
  RunHandler("GetSlotInfo", HandleGetSlotInfo(status, data))
GetSlotDefaultValuesResponse ==
  RunHandler("GetSlotDefaultValues", HandleGetSlotDefaultValues(status, data))

GetProductDetailIdListResponse ==
  RunHandler("GetProductDetailIdList",
             HandleGetProductDetailIdList(status, data))

NextHandlers ==
  \/ GetProductDetailIdListResponse
  \/ GetSlotInfoResponse
  \/ GetSlotDefaultValuesResponse
  \/ GetStatusMessageResponse
  \/ GetSupportedParametersResponse
  \/ GetLanguageCapabilitiesResponse
  \/ GetParameterDescriptorResponse
  \/ GetDMXPersonalityDescriptionResponse
  \/ GetSlotDescriptionResponse
  \/ GetSensorDefinitionResponse
  \/ GetCommStatusResponse
  \/ GetLanguageResponse
  \/ GetDeviceDescriptorResponse
  \/ SensorValueResponse
  \/ LabelResponse
  \/ EmptyResponse
  \/ GetProxiedDeviceCountResponse
  \/ GetProxiedDevicesResponse
  \/ GetSubDeviceReportingResponse
  \/ GetFactoryDefaultsResponse
  \/ GetBootSoftwareVersionResponse
  \/ GetDMXPersonalityResponse
  \/ GetDMXAddressResponse

SpecHandlers == InitHandlers /\ [][NextHandlers]_vars

(***************************************************************************)
(* C6: the status constructed from (status, data) is the first matching    *)
(* rule of: transport error -> TransportError; else broadcast ->           *)
(* Broadcast, for every response type and payload and with no reason code  *)
(* parsed; else NACK_REASON -> Nacked or Malformed; else Valid.            *)
(***************************************************************************)
C6_FirstMatchingRule ==
  delivered.h # None =>
    LET c == delivered.classified
    IN /\ (status.error # "") =>
            (c.type = TRANSPORT_ERROR /\ c.error = status.error)
       /\ (status.error = "" /\ status.was_broadcast) =>
            (c.type = BROADCAST_REQUEST /\ c.nack_reason = 0)
       /\ (status.error = "" /\ ~status.was_broadcast
           /\ status.response_type = NACK_REASON) =>
            c.type \in {REQUEST_NACKED, MALFORMED_RESPONSE}
       /\ (status.error = "" /\ ~status.was_broadcast
           /\ status.response_type # NACK_REASON) =>
            c.type = VALID_RESPONSE

\* A broadcast request answered with response type NACK_REASON and a payload
\* that holds a reason code has been classified.
C6_Witness ==
  /\ delivered.h # None
  /\ status.error = ""
  /\ status.was_broadcast
  /\ status.response_type = NACK_REASON
  /\ Len(data) >= 2
  /\ delivered.classified.type = BROADCAST_REQUEST

(***************************************************************************)
(* C7: a unicast NACK_REASON response with no transport error is Malformed *)
(* when the payload has fewer than 2 bytes, and otherwise Nacked with      *)
(* reason 256 * payload[0] + payload[1], the bytes taken unsigned and any  *)
(* further bytes ignored.                                                  *)
(***************************************************************************)
C7_NackReason ==
  (/\ delivered.h # None
   /\ status.error = ""
   /\ ~status.was_broadcast
   /\ status.response_type = NACK_REASON) =>
    LET c == delivered.classified
    IN IF Len(data) < 2
         THEN c.type = MALFORMED_RESPONSE
         ELSE /\ c.type = REQUEST_NACKED
              /\ c.nack_reason = 256 * data[1] + data[2]

\* A NACK whose reason bytes both have the top bit set, followed by a further
\* byte, has been classified.
C7_Witness ==
  /\ delivered.h # None
  /\ status.error = ""
  /\ ~status.was_broadcast
  /\ status.response_type = NACK_REASON
  /\ Len(data) > 2
  /\ data[1] >= 128
  /\ data[2] >= 128
  /\ delivered.classified.type = REQUEST_NACKED
  /\ delivered.classified.nack_reason = 65535

(***************************************************************************)
(* C8: when the classified status is not Valid, the handler validates and  *)
(* decodes nothing: the continuation gets exactly the classified status    *)
(* and description, every number is 0, every flag is false and every list  *)
(* is empty, whatever the payload holds.                                   *)
(***************************************************************************)
C8_NoDecodeUnlessValid ==
  (delivered.h # None /\ delivered.classified.type # VALID_RESPONSE) =>
    /\ delivered.rs = delivered.classified
    /\ \A i \in DOMAIN delivered.nums : delivered.nums[i] = 0
    /\ \A i \in DOMAIN delivered.flags : delivered.flags[i] = FALSE
    /\ delivered.list = <<>>

\* A NACKed DMX start address response whose payload would decode to a
\* non-zero address was delivered as Nacked with address 0.
C8_Witness ==
  /\ delivered.h = "GetDMXAddress"
  /\ delivered.classified.type = REQUEST_NACKED
  /\ Len(data) = 2
  /\ data[1] # 0
  /\ delivered.rs.type = REQUEST_NACKED
  /\ delivered.nums = <<0>>

(***************************************************************************)
(* C13: a label response classified Valid is delivered as Malformed, with  *)
(* a description naming the 32-byte limit and the actual length, when the  *)
(* payload is longer than 32 bytes, and as Valid when it has 0..32 bytes.  *)
(***************************************************************************)
C13_LabelLength ==
  (delivered.h = "LabelResponse" /\ delivered.classified.type = VALID_RESPONSE)
  => IF Len(data) > 32
       THEN /\ delivered.rs.type = MALFORMED_RESPONSE
            /\ delivered.rs.error =
                 "PDL needs to be <= 32, was " \o ToString(Len(data))
       ELSE /\ delivered.rs.type = VALID_RESPONSE
            /\ delivered.text = data

\* A label of 33 bytes has been delivered as Malformed.
C13_Witness ==
  /\ delivered.h = "LabelResponse"
  /\ delivered.classified.type = VALID_RESPONSE
  /\ Len(data) = 33
  /\ delivered.rs.type = MALFORMED_RESPONSE

(***************************************************************************)
(* C14: for each fixed-length decoder (sub-device reporting 1 byte,        *)
(* factory defaults 1, language 2, DMX personality 2, DMX start address 2, *)
(* boot software version 4, device info 19, sensor value 9) a response     *)
(* classified Valid is delivered as Valid when the payload has exactly the *)
(* declared length, and otherwise, shorter or longer, as Malformed with a  *)
(* description holding the actual and the expected length.                 *)
(***************************************************************************)
C14_FixedLength ==
  LET declared ==
        [GetSubDeviceReporting |-> 1, GetFactoryDefaults |-> 1,
         GetLanguage |-> 2, GetDMXPersonality |-> 2, GetDMXAddress |-> 2,
         GetBootSoftwareVersion |-> 4, GetDeviceDescriptor |-> 19,
         SensorValue |-> 9]
  IN (/\ delivered.h \in DOMAIN declared
      /\ delivered.classified.type = VALID_RESPONSE) =>
       IF Len(data) = declared[delivered.h]
         THEN delivered.rs.type = VALID_RESPONSE
         ELSE /\ delivered.rs.type = MALFORMED_RESPONSE
              /\ delivered.rs.error =
                   "PDL mismatch, " \o ToString(Len(data)) \o " != " \o
                   ToString(declared[delivered.h]) \o " (expected)"

\* A language response one byte too long has been delivered as Malformed.
C14_Witness ==
  /\ delivered.h = "GetLanguage"
  /\ delivered.classified.type = VALID_RESPONSE
  /\ Len(data) = 3
  /\ delivered.rs.type = MALFORMED_RESPONSE
  /\ delivered.rs.error = "PDL mismatch, 3 != 2 (expected)"

(***************************************************************************)
(* C15: a proxied-device-count response (declared length 3) or a           *)
(* comms-status response (declared length 6) classified Valid whose        *)
(* payload is longer than the declared length is delivered as Malformed,   *)
(* as a shorter one is.                                                    *)
(***************************************************************************)
C15_LongerIsMalformed ==
  LET declared == [GetProxiedDeviceCount |-> 3, GetCommStatus |-> 6]
  IN (/\ delivered.h \in DOMAIN declared
      /\ delivered.classified.type = VALID_RESPONSE
      /\ Len(data) # declared[delivered.h]) =>
       delivered.rs.type = MALFORMED_RESPONSE

(***************************************************************************)
(* C16: for each header-plus-label decoder (parameter description, header  *)
(* 20 bytes; DMX personality description, 3; slot description, 2; sensor   *)
(* definition, 13) a response classified Valid is delivered as Valid       *)
(* exactly when header <= payload length <= header + 32, and otherwise as  *)
(* Malformed with a description naming the length and both bounds.         *)
(***************************************************************************)
C16_HeaderPlusLabelLength ==
  LET header ==
        [GetParameterDescriptor |-> 20, GetDMXPersonalityDescription |-> 3,
         GetSlotDescription |-> 2, GetSensorDefinition |-> 13]
  IN (/\ delivered.h \in DOMAIN header
      /\ delivered.runs = 1
      /\ delivered.classified.type = VALID_RESPONSE) =>
       LET h == header[delivered.h]
       IN IF h <= Len(data) /\ Len(data) <= h + 32
            THEN delivered.rs.type = VALID_RESPONSE
            ELSE /\ delivered.rs.type = MALFORMED_RESPONSE
                 /\ delivered.rs.error =
                      ToString(Len(data)) \o " needs to be between " \o
                      ToString(h) \o " and " \o ToString(h + 32)

\* A personality description of just the 3 header bytes has been accepted.
C16_Witness ==
  /\ delivered.h = "GetDMXPersonalityDescription"
  /\ delivered.classified.type = VALID_RESPONSE
  /\ Len(data) = 3
  /\ delivered.rs.type = VALID_RESPONSE

(***************************************************************************)
(* C17: for every list decoder with record size r (proxied devices 6,      *)
(* status messages 9, supported parameters 2, language capabilities 2,     *)
(* slot info 5, default slot values 3) a response classified Valid whose   *)
(* payload length is not a multiple of r is delivered as Malformed with an *)
(* empty list; and a proxied-devices payload of 6k bytes yields exactly k  *)
(* UIDs, the i-th built from bytes 6i .. 6i+5, in wire order.              *)
(***************************************************************************)
C17_ListRecords ==
  LET record ==
        [GetProxiedDevices |-> 6, GetStatusMessage |-> 9,
         GetSupportedParameters |-> 2, GetLanguageCapabilities |-> 2,
         GetSlotInfo |-> 5, GetSlotDefaultValues |-> 3]
  IN (/\ delivered.h \in DOMAIN record
      /\ delivered.classified.type = VALID_RESPONSE) =>
       /\ Len(data) % record[delivered.h] # 0 =>
            /\ delivered.runs = 1
            /\ delivered.rs.type = MALFORMED_RESPONSE
            /\ delivered.list = <<>>
       /\ (delivered.h = "GetProxiedDevices" /\ Len(data) % 6 = 0) =>
            /\ delivered.rs.type = VALID_RESPONSE
            /\ Len(delivered.list) = Len(data) \div 6
            /\ \A i \in 1..(Len(data) \div 6) :
                 delivered.list[i] =
                   [esta |-> 256 * data[6 * i - 5] + data[6 * i - 4],
                    device |-> <<256 * data[6 * i - 3] + data[6 * i - 2],
                                 256 * data[6 * i - 1] + data[6 * i]>>]

\* Twelve bytes 1..12 have been decoded into the two UIDs 0102:03040506 and
\* 0708:090a0b0c.
C17_Witness ==
  /\ delivered.h = "GetProxiedDevices"
  /\ delivered.rs.type = VALID_RESPONSE
  /\ data = [i \in 1..12 |-> i]
  /\ delivered.list = <<[esta |-> 258, device |-> <<772, 1286>>],
                        [esta |-> 1800, device |-> <<2314, 2828>>]>>

(***************************************************************************)
(* C18: a Valid supported-parameters response of n bytes, n even, yields   *)
(* exactly n / 2 PIDs, the i-th being the big-endian value of payload      *)
(* bytes 2i and 2i + 1 (counted from 0), and no byte past the payload is   *)
(* read.                                                                   *)
(***************************************************************************)
C18_SupportedParametersCount ==
  (/\ delivered.h = "GetSupportedParameters"
   /\ delivered.rs.type = VALID_RESPONSE) =>
    /\ Len(delivered.list) = Len(data) \div 2
    /\ \A i \in 1..(Len(data) \div 2) :
         delivered.list[i] = 256 * data[2 * i - 1] + data[2 * i]

(***************************************************************************)
(* C19: decoding a Valid slot-info or default-slot-value response whose    *)
(* payload is a non-empty multiple of the record size ends, and the        *)
(* continuation is then run once with payload length / record size         *)
(* records.                                                                *)
(***************************************************************************)
C19_SlotDecodingEnds ==
  LET record == [GetSlotInfo |-> 5, GetSlotDefaultValues |-> 3]
  IN (/\ delivered.h \in DOMAIN record
      /\ delivered.classified.type = VALID_RESPONSE
      /\ Len(data) > 0
      /\ Len(data) % record[delivered.h] = 0) =>
       /\ delivered.runs = 1
       /\ Len(delivered.list) = Len(data) \div record[delivered.h]

(***************************************************************************)
(* C20: for each header-plus-label decoder with header size h, the         *)
(* description text delivered for an accepted payload of length n is       *)
(* exactly the n - h trailing payload bytes: it has length n - h and holds *)
(* no byte from outside the payload.                                       *)
(***************************************************************************)
C20_DescriptionIsTrailingBytes ==
  LET header ==
        [GetParameterDescriptor |-> 20, GetDMXPersonalityDescription |-> 3,
         GetSlotDescription |-> 2, GetSensorDefinition |-> 13]
  IN (/\ delivered.h \in DOMAIN header
      /\ delivered.runs = 1
      /\ delivered.rs.type = VALID_RESPONSE) =>
       /\ Len(delivered.text) = Len(data) - header[delivered.h]
       /\ delivered.text = SubSeq(data, header[delivered.h] + 1, Len(data))

(***************************************************************************)
(* C21: in every decoded status message each 16-bit field (sub-device,     *)
(* message id, value 1, value 2) equals 256 * hi + lo of its two wire      *)
(* bytes.                                                                  *)
(***************************************************************************)
C21_StatusMessageFields ==
  (/\ delivered.h = "GetStatusMessage"
   /\ delivered.runs = 1
   /\ delivered.rs.type = VALID_RESPONSE) =>
    \A k \in DOMAIN delivered.list :
      LET i == 9 * (k - 1)
      IN /\ delivered.list[k].sub_device = 256 * data[i + 1] + data[i + 2]
         /\ delivered.list[k].message_id = 256 * data[i + 4] + data[i + 5]
         /\ delivered.list[k].value_1 = 256 * data[i + 6] + data[i + 7]
         /\ delivered.list[k].value_2 = 256 * data[i + 8] + data[i + 9]

(***************************************************************************)
(* C22: on a little-endian host every 16-bit value delivered by the        *)
(* proxied-device-count decoder, the comms-status decoder and the          *)
(* product-detail-id-list decoder equals 256 * first byte + second byte of *)
(* its wire bytes.                                                         *)
(***************************************************************************)
C22_BigEndianOnLittleEndianHost ==
  (/\ host_le
   /\ delivered.runs = 1
   /\ delivered.rs.type = VALID_RESPONSE) =>
    /\ delivered.h = "GetProxiedDeviceCount" =>
         delivered.nums[1] = 256 * data[1] + data[2]
    /\ delivered.h = "GetCommStatus" =>
         \A k \in 1..3 :
           delivered.nums[k] = 256 * data[2 * k - 1] + data[2 * k]
    /\ delivered.h = "GetProductDetailIdList" =>
         \A k \in DOMAIN delivered.list :
           delivered.list[k] = 256 * data[2 * k - 1] + data[2 * k]

(***************************************************************************)
(* C29: _HandleEmptyResponse, given a response classified Valid, delivers  *)
(* Malformed with the description "PDL mismatch, n != 0 (expected)" when   *)
(* the payload has n > 0 bytes and Valid when the payload is empty, and    *)
(* runs the continuation exactly once in both cases.                       *)
(***************************************************************************)
C29_EmptyResponse ==
  (/\ delivered.h = "EmptyResponse"
   /\ delivered.classified.type = VALID_RESPONSE) =>
    /\ delivered.runs = 1
    /\ IF Len(data) # 0
         THEN /\ delivered.rs.type = MALFORMED_RESPONSE
              /\ delivered.rs.error = "PDL mismatch, " \o ToString(Len(data))
                                        \o " != 0 (expected)"
         ELSE delivered.rs.type = VALID_RESPONSE

C29_Witness ==
  /\ delivered.h = "EmptyResponse"
  /\ delivered.classified.type = VALID_RESPONSE
  /\ Len(data) = 2
  /\ delivered.rs.type = MALFORMED_RESPONSE
  /\ delivered.rs.error = "PDL mismatch, 2 != 0 (expected)"
  /\ delivered.runs = 1

(***************************************************************************)
(* The RDMAPI request operations.                                          *)
(***************************************************************************)
\* UID::IsBroadcast(): the all-devices, all-manufacturers address.
IsBroadcast(uid) == uid.esta = 65535 /\ uid.device = <<65535, 65535>>

UnicastUID == [esta |-> 31344, device |-> <<0, 1>>]
BroadcastUID == [esta |-> 65535, device |-> <<65535, 65535>>]
UIDs == {UnicastUID, BroadcastUID}

\* The largest sub-device number, and the all-sub-devices value.
MaxSubDevice == 512
AllSubDevices == 65535
ROOT_RDM_DEVICE == 0

\* The sub-device arguments tried: the ends of the legal range, the values
\* next to them, and the all-sub-devices value.
SubDevices == {0, 1, MaxSubDevice, MaxSubDevice + 1, AllSubDevices - 1,
               AllSubDevices}

\* RDMAPI::CheckNotBroadcast(uid, error): the value returned and the error
\* string afterwards.
CheckNotBroadcast(uid, err) ==
  IF IsBroadcast(uid)
    THEN [ret |-> FALSE, error |-> "Cannot send to broadcast address"]
    ELSE [ret |-> TRUE, error |-> err]

\* RDMAPI::CheckValidSubDevice(sub_device, broadcast_allowed, error)
CheckValidSubDevice(sub_device, broadcast_allowed, err) ==
  IF sub_device <= MaxSubDevice
    THEN [ret |-> TRUE, error |-> err]
    ELSE IF broadcast_allowed /\ sub_device = AllSubDevices
      THEN [ret |-> TRUE, error |-> err]
      ELSE [ret |-> FALSE,
            error |-> IF broadcast_allowed
                        THEN "Sub device must be <= 0x0200 or 0xffff"
                        ELSE "Sub device must be <= 0x0200"]

\* RDMAPI::CheckReturnStatus(status, error)
CheckReturnStatus(st, err) ==
  [ret |-> st, error |-> IF ~st THEN "Unable to send RDM command" ELSE err]

\* A request as handed to RDMAPIImplInterface::RDMGet / RDMSet.
Request(class, uid, sub_device, pid, payload) ==
  [class |-> class, uid |-> uid, sub_device |-> sub_device, pid |-> pid,
   data |-> payload]

Rejected(err) == [ret |-> FALSE, error |-> err, sent |-> <<>>]

\* A GET of the root device: GetProxiedDeviceCount and the operations of the
\* same shape.  accept is what the implementation's RDMGet returns.
RootGet(uid, pid, payload, accept, err) ==
  LET nb == CheckNotBroadcast(uid, err)
  IN IF nb.ret
       THEN Rejected(nb.error)
       ELSE LET cr == CheckReturnStatus(accept, nb.error)
            IN [ret |-> cr.ret, error |-> cr.error,
                sent |-> <<Request("GET", uid, ROOT_RDM_DEVICE, pid, payload)>>]

\* A GET of a sub-device: GetDeviceInfo, GetDeviceLabel, GetDMXAddress and
\* the operations of the same shape.
SubDeviceGet(uid, sub_device, pid, payload, accept, err) ==
  LET nb == CheckNotBroadcast(uid, err)
  IN IF nb.ret
       THEN Rejected(nb.error)
       ELSE LET vs == CheckValidSubDevice(sub_device, FALSE, nb.error)
            IN IF vs.ret
                 THEN Rejected(vs.error)
                 ELSE LET cr == CheckReturnStatus(accept, vs.error)
                      IN [ret |-> cr.ret, error |-> cr.error,
                          sent |-> <<Request("GET", uid, sub_device, pid,
                                             payload)>>]

GetProxiedDeviceCount(uid, accept, err) ==
  RootGet(uid, "PID_PROXIED_DEVICE_COUNT", <<>>, accept, err)

GetDeviceInfo(uid, sub_device, accept, err) ==
  SubDeviceGet(uid, sub_device, "PID_DEVICE_INFO", <<>>, accept, err)

GetDeviceLabel(uid, sub_device, accept, err) ==
  SubDeviceGet(uid, sub_device, "PID_DEVICE_LABEL", <<>>, accept, err)

GetDMXAddress(uid, sub_device, accept, err) ==
  SubDeviceGet(uid, sub_device, "PID_DMX_START_ADDRESS", <<>>, accept, err)

\* GetSupportedParameters returns RDMGet's value without CheckReturnStatus.
GetSupportedParameters(uid, sub_device, accept, err) ==
  LET nb == CheckNotBroadcast(uid, err)
  IN IF nb.ret
       THEN Rejected(nb.error)
       ELSE LET vs == CheckValidSubDevice(sub_device, FALSE, nb.error)
            IN IF vs.ret
                 THEN Rejected(vs.error)
                 ELSE [ret |-> accept, error |-> vs.error,
                       sent |-> <<Request("GET", uid, sub_device,
                                          "PID_SUPPORTED_PARAMETERS", <<>>)>>]

GetSubDeviceReporting(uid, sub_device, accept, err) ==
  SubDeviceGet(uid, sub_device, "PID_SUB_DEVICE_STATUS_REPORT_THRESHOLD",
               <<>>, accept, err)

\* A SET that takes a sub-device and does no broadcast test: SetDeviceLabel,
\* RecordSensors and the operations of the same shape.
SubDeviceSet(uid, sub_device, pid, payload, accept, err) ==
  LET vs == CheckValidSubDevice(sub_device, TRUE, err)
  IN IF vs.ret
       THEN Rejected(vs.error)
       ELSE LET cr == CheckReturnStatus(accept, vs.error)
            IN [ret |-> cr.ret, error |-> cr.error,
                sent |-> <<Request("SET", uid, sub_device, pid, payload)>>]

ClearStatusId(uid, sub_device, accept, err) ==
  LET nb == CheckNotBroadcast(uid, err)
  IN IF nb.ret
       THEN Rejected(nb.error)
       ELSE SubDeviceSet(uid, sub_device, "PID_CLEAR_STATUS_ID", <<>>,
                         accept, nb.error)

SetDeviceLabel(uid, sub_device, label, accept, err) ==
  SubDeviceSet(uid, sub_device, "PID_DEVICE_LABEL", label, accept, err)

LanguageSize == 2

SetLanguage(uid, sub_device, language, accept, err) ==
  LET vs == CheckValidSubDevice(sub_device, TRUE, err)
  IN IF vs.ret
       THEN Rejected(vs.error)
       ELSE IF Len(language) # LanguageSize
         THEN Rejected("Language must be a two letter code")
         ELSE LET cr == CheckReturnStatus(accept, vs.error)
              IN [ret |-> cr.ret, error |-> cr.error,
                  sent |-> <<Request("SET", uid, sub_device, "PID_LANGUAGE",
                                     SubSeq(language, 1, LanguageSize))>>]

RecordSensors(uid, sub_device, sensor_number, accept, err) ==
  SubDeviceSet(uid, sub_device, "PID_RECORD_SENSORS", <<sensor_number>>,
               accept, err)

\* GetSensorValue and SetSensorValue both name PID_RECORD_SENSORS.
GetSensorValue(uid, sub_device, sensor_number, accept, err) ==
  SubDeviceGet(uid, sub_device, "PID_RECORD_SENSORS", <<sensor_number>>,
               accept, err)

SetSensorValue(uid, sub_device, sensor_number, accept, err) ==
  SubDeviceSet(uid, sub_device, "PID_RECORD_SENSORS", <<sensor_number>>,
               accept, err)

\* HostToNetwork(uint16_t) and the two bytes of a uint16_t in memory, as a
\* reinterpret_cast<const uint8_t*> of its address reads them.
HostToNetwork16(x) == IF host_le THEN Swap16(x) ELSE x

BytesOfU16(x) ==
  IF host_le THEN <<x % 256, x \div 256>> ELSE <<x \div 256, x % 256>>

\* GetParameterDescription names PID_STATUS_ID_DESCRIPTION.
GetParameterDescription(uid, pid, accept, err) ==
  RootGet(uid, "PID_STATUS_ID_DESCRIPTION", BytesOfU16(HostToNetwork16(pid)),
          accept, err)

\* SetSubDeviceReporting tests sub_device and then addresses the request to
\* ROOT_RDM_DEVICE.
SetSubDeviceReporting(uid, sub_device, status_type, accept, err) ==
  LET nb == CheckNotBroadcast(uid, err)
  IN IF nb.ret
       THEN Rejected(nb.error)
       ELSE LET vs == CheckValidSubDevice(sub_device, TRUE, nb.error)
            IN IF vs.ret
                 THEN Rejected(vs.error)
                 ELSE LET cr == CheckReturnStatus(accept, vs.error)
                      IN [ret |-> cr.ret, error |-> cr.error,
                          sent |-> <<Request("SET", uid, ROOT_RDM_DEVICE,
                                       "PID_SUB_DEVICE_STATUS_REPORT_THRESHOLD",
                                       <<status_type>>)>>]

\* ResetToFactoryDefaults hands its request to RDMGet.
ResetToFactoryDefaults(uid, sub_device, accept, err) ==
  LET nb == CheckNotBroadcast(uid, err)
  IN IF nb.ret
       THEN Rejected(nb.error)
       ELSE LET vs == CheckValidSubDevice(sub_device, TRUE, nb.error)
            IN IF vs.ret
                 THEN Rejected(vs.error)
                 ELSE LET cr == CheckReturnStatus(accept, vs.error)
                      IN [ret |-> cr.ret, error |-> cr.error,
                          sent |-> <<Request("GET", uid, sub_device,
                                             "PID_FACTORY_DEFAULTS", <<>>)>>]

\* SetDMXAddress without the HostToNetwork conversion.
SetDMXAddress_NoHostToNetwork(uid, sub_device, start_address, accept, err) ==
  LET nb == CheckNotBroadcast(uid, err)
  IN IF nb.ret
       THEN Rejected(nb.error)
       ELSE SubDeviceSet(uid, sub_device, "PID_DMX_START_ADDRESS",
                         BytesOfU16(start_address), accept, nb.error)

SetDMXAddress(uid, sub_device, start_address, accept, err) ==
  LET nb == CheckNotBroadcast(uid, err)
  IN IF nb.ret
       THEN Rejected(nb.error)
       ELSE SubDeviceSet(uid, sub_device, "PID_DMX_START_ADDRESS",
                         BytesOfU16(HostToNetwork16(start_address)),
                         accept, nb.error)

\* The 16-bit arguments tried (a start address, a parameter id).
Numbers == {0, 1, 255, 256, 258, 513, 65280, 65535}

\* The label and language arguments tried, as sequences of characters.
Texts == {<<>>, <<"e", "n">>, <<"e", "n", "g">>}

ApiCalls ==
  [op : {None}, uid : UIDs, sub_device : SubDevices, accept : BOOLEAN,
   text : Texts, num : Numbers]

InitApi ==
  /\ api_call \in ApiCalls
  /\ api_ret = FALSE
  /\ api_error = ""
  /\ impl_sent = <<>>
  /\ status = [error |-> "", was_broadcast |-> FALSE, response_type |-> ACK]
  /\ data = <<>>
  /\ host_le \in BOOLEAN
  /\ delivered = NotDelivered
  /\ SeqIdle
  /\ HttpIdle
  /\ DiscIdle

\* The caller calls operation name, which returns r.
Call(name, r) ==
  /\ api_call.op = None
  /\ api_call' = [api_call EXCEPT !.op = name]
  /\ api_ret' = r.ret
  /\ api_error' = r.error
  /\ impl_sent' = impl_sent \o r.sent
  /\ UNCHANGED <<handlerVars, seqVars, discVars, httpVars>>

\* The device answers a GET of the start address with the payload that
\* SetDMXAddress submitted, and _HandleGetDMXAddress decodes it.
DMXAddressReadBack ==
  /\ api_call.op = "SetDMXAddress"
  /\ impl_sent # <<>>
  /\ delivered.h = None
  /\ data' = impl_sent[1].data
  /\ delivered' = Deliver("GetDMXAddress", HandleGetDMXAddress(status, data'))
  /\ UNCHANGED <<status, host_le, apiVars, seqVars, discVars, httpVars>>

CallSetDMXAddress ==
  Call("SetDMXAddress",
       SetDMXAddress(api_call.uid, api_call.sub_device, api_call.num,
                     api_call.accept, api_error))
CallResetToFactoryDefaults ==
  Call("ResetToFactoryDefaults",
       ResetToFactoryDefaults(api_call.uid, api_call.sub_device,
                              api_call.accept, api_error))
CallGetParameterDescription ==
  Call("GetParameterDescription",
       GetParameterDescription(api_call.uid, api_call.num, api_call.accept,
                               api_error))
CallGetSensorValue ==
  Call("GetSensorValue",
       GetSensorValue(api_call.uid, api_call.sub_device, 0, api_call.accept,
                      api_error))
CallSetSensorValue ==
  Call("SetSensorValue",
       SetSensorValue(api_call.uid, api_call.sub_device, 0, api_call.accept,
                      api_error))
CallSetSubDeviceReporting ==
  Call("SetSubDeviceReporting",
       SetSubDeviceReporting(api_call.uid, api_call.sub_device, 2,
                             api_call.accept, api_error))

CallGetProxiedDeviceCount ==
  Call("GetProxiedDeviceCount",
       GetProxiedDeviceCount(api_call.uid, api_call.accept, api_error))
CallGetDeviceInfo ==
  Call("GetDeviceInfo",
       GetDeviceInfo(api_call.uid, api_call.sub_device, api_call.accept,
                     api_error))
CallGetDeviceLabel ==
  Call("GetDeviceLabel",
       GetDeviceLabel(api_call.uid, api_call.sub_device, api_call.accept,
                      api_error))
CallGetDMXAddress ==
  Call("GetDMXAddress",
       GetDMXAddress(api_call.uid, api_call.sub_device, api_call.accept,
                     api_error))
CallGetSupportedParameters ==
  Call("GetSupportedParameters",
       GetSupportedParameters(api_call.uid, api_call.sub_device,
                              api_call.accept, api_error))

CallGetSubDeviceReporting ==
  Call("GetSubDeviceReporting",
       GetSubDeviceReporting(api_call.uid, api_call.sub_device,
                             api_call.accept, api_error))
CallClearStatusId ==
  Call("ClearStatusId",
       ClearStatusId(api_call.uid, api_call.sub_device, api_call.accept,
                     api_error))
CallSetDeviceLabel ==
  Call("SetDeviceLabel",
       SetDeviceLabel(api_call.uid, api_call.sub_device, api_call.text,
                      api_call.accept, api_error))
CallSetLanguage ==
  Call("SetLanguage",
       SetLanguage(api_call.uid, api_call.sub_device, api_call.text,
                   api_call.accept, api_error))
CallRecordSensors ==
  Call("RecordSensors",
       RecordSensors(api_call.uid, api_call.sub_device, 0, api_call.accept,
                     api_error))

GetOps == {"GetProxiedDeviceCount", "GetDeviceInfo", "GetDeviceLabel",
           "GetDMXAddress", "GetSupportedParameters",
           "GetSubDeviceReporting"}

\* The SET operations that pass broadcast_allowed = true.
BroadcastSetOps == {"ClearStatusId", "SetDeviceLabel", "SetLanguage",
                    "RecordSensors"}

NextApi ==
  \/ CallGetProxiedDeviceCount
  \/ CallGetDeviceInfo
  \/ CallGetDeviceLabel
  \/ CallGetDMXAddress
  \/ CallGetSupportedParameters
  \/ CallGetSubDeviceReporting
  \/ CallClearStatusId
  \/ CallSetDeviceLabel
  \/ CallSetLanguage
  \/ CallRecordSensors
  \/ CallSetDMXAddress
  \/ DMXAddressReadBack
  \/ CallResetToFactoryDefaults
  \/ CallGetParameterDescription
  \/ CallGetSensorValue
  \/ CallSetSensorValue
  \/ CallSetSubDeviceReporting

SpecApi == InitApi /\ [][NextApi]_vars

(***************************************************************************)
(* C9: a GET operation called with a broadcast UID is rejected: it returns *)
(* false, sets the error to "Cannot send to broadcast address" and hands   *)
(* no request to the implementation.                                       *)
(***************************************************************************)
C9_BroadcastGetRejected ==
  (api_call.op \in GetOps /\ IsBroadcast(api_call.uid)) =>
    /\ api_ret = FALSE
    /\ api_error = "Cannot send to broadcast address"
    /\ impl_sent = <<>>

(***************************************************************************)
(* C10: a GET operation called with a unicast UID and a sub-device in      *)
(* 0..0x0200 hands exactly one request to the implementation and returns   *)
(* true exactly when the implementation accepted it; when it refuses, the  *)
(* error is "Unable to send RDM command".                                  *)
(***************************************************************************)
C10_UnicastGetSubmitted ==
  (/\ api_call.op \in GetOps
   /\ ~IsBroadcast(api_call.uid)
   /\ api_call.sub_device <= 512) =>
    /\ Len(impl_sent) = 1
    /\ api_ret = api_call.accept
    /\ (~api_call.accept => api_error = "Unable to send RDM command")

(***************************************************************************)
(* C11: an operation that takes a sub-device hands its request to the      *)
(* implementation only if the sub-device is in 0..0x0200, or is 0xFFFF and *)
(* the operation is a SET that permits broadcast; for any other sub-device *)
(* it returns false with an error naming the 0x0200 limit and submits      *)
(* nothing.                                                                *)
(***************************************************************************)
C11_SubDeviceAcceptance ==
  (api_call.op \in (GetOps \cup BroadcastSetOps) \ {"GetProxiedDeviceCount"})
  => LET allowed ==
           \/ api_call.sub_device <= 512
           \/ api_call.sub_device = 65535 /\ api_call.op \in BroadcastSetOps
     IN /\ impl_sent # <<>> => allowed
        /\ ~allowed =>
             /\ api_ret = FALSE
             /\ api_error \in {"Sub device must be <= 0x0200",
                               "Sub device must be <= 0x0200 or 0xffff"}
             /\ impl_sent = <<>>

(***************************************************************************)
(* C12: a SET that permits broadcast (SetDeviceLabel, SetLanguage with a   *)
(* two-letter code, RecordSensors), addressed to sub-device 0xFFFF and     *)
(* accepted by the implementation, is handed to the implementation and     *)
(* returns true.                                                           *)
(***************************************************************************)
C12_BroadcastSetSubmitted ==
  (/\ api_call.op \in {"SetDeviceLabel", "SetLanguage", "RecordSensors"}
   /\ api_call.sub_device = 65535
   /\ api_call.accept
   /\ api_call.op = "SetLanguage" => Len(api_call.text) = 2) =>
    /\ Len(impl_sent) = 1
    /\ impl_sent[1].sub_device = 65535
    /\ api_ret = TRUE

(***************************************************************************)
(* C23: round trip of the DMX start address: the payload SetDMXAddress     *)
(* submits for the address a is <<a div 256, a mod 256>>, and the          *)
(* DMX-address decoder, given that payload in a Valid GET response,        *)
(* delivers Valid and a.                                                   *)
(***************************************************************************)
C23_DMXAddressRoundTrip ==
  (api_call.op = "SetDMXAddress" /\ impl_sent # <<>>) =>
    /\ impl_sent[1].data = <<api_call.num \div 256, api_call.num % 256>>
    /\ delivered.h = "GetDMXAddress" =>
         /\ delivered.runs = 1
         /\ delivered.rs.type = VALID_RESPONSE
         /\ delivered.nums = <<api_call.num>>

C23_Witness ==
  /\ api_call.op = "SetDMXAddress"
  /\ api_call.num = 258
  /\ host_le
  /\ impl_sent # <<>>
  /\ impl_sent[1].data = <<1, 2>>
  /\ delivered.h = "GetDMXAddress"
  /\ delivered.nums = <<258>>

(***************************************************************************)
(* C24: every request ResetToFactoryDefaults submits is a SET of the       *)
(* factory-defaults parameter, never a GET.                                *)
(***************************************************************************)
C24_ResetIsSet ==
  api_call.op = "ResetToFactoryDefaults" =>
    \A k \in DOMAIN impl_sent :
      /\ impl_sent[k].class = "SET"
      /\ impl_sent[k].pid = "PID_FACTORY_DEFAULTS"

(***************************************************************************)
(* C25: SetLanguage with a valid sub-device and a language of two or more  *)
(* characters submits one SET of the language parameter whose payload is   *)
(* the first two characters; with a shorter language it returns false,     *)
(* sets an error and submits nothing.                                      *)
(***************************************************************************)
C25_FirstTwoCharacters ==
  (/\ api_call.op = "SetLanguage"
   /\ CheckValidSubDevice(api_call.sub_device, TRUE, "").ret) =>
    IF Len(api_call.text) >= 2
      THEN /\ Len(impl_sent) = 1
           /\ impl_sent[1].class = "SET"
           /\ impl_sent[1].pid = "PID_LANGUAGE"
           /\ impl_sent[1].data = SubSeq(api_call.text, 1, 2)
      ELSE /\ api_ret = FALSE
           /\ api_error # ""
           /\ impl_sent = <<>>

(***************************************************************************)
(* C27: each operation names its documented parameter: the requests of     *)
(* GetParameterDescription carry the parameter-description id, those of    *)
(* GetSensorValue and SetSensorValue the sensor-value id, and only         *)
(* RecordSensors sends the record-sensors id.                              *)
(***************************************************************************)
C27_DocumentedPid ==
  \A k \in DOMAIN impl_sent :
    /\ api_call.op = "GetParameterDescription" =>
         impl_sent[k].pid = "PID_PARAMETER_DESCRIPTION"
    /\ api_call.op \in {"GetSensorValue", "SetSensorValue"} =>
         impl_sent[k].pid = "PID_SENSOR_VALUE"
    /\ impl_sent[k].pid = "PID_RECORD_SENSORS" =>
         api_call.op = "RecordSensors"

(***************************************************************************)
(* C28: every request of an operation that takes a sub-device argument is  *)
(* addressed to exactly that sub-device, SetSubDeviceReporting included.   *)
(***************************************************************************)
C28_AddressedToSubDevice ==
  api_call.op \notin {None, "GetProxiedDeviceCount",
                      "GetParameterDescription"} =>
    \A k \in DOMAIN impl_sent : impl_sent[k].sub_device = api_call.sub_device

(***************************************************************************)
(* The transaction sequencer of one controller: Idle -> AwaitingResponse   *)
(* -> Idle, with a FIFO of the submissions accepted while awaiting.        *)
(***************************************************************************)
MaxSubmissions == 3

\* SequenceNumber<uint8_t>: the transaction number wraps at 2^8.
TxnModulus == 256

Kinds == {"RDM", "Mute", "UnMuteAll", "Branch"}

\* UnMuteAll and Branch are addressed to the broadcast UID, Mute to one UID.
AddressedAsBroadcast(kind) == kind \in {"UnMuteAll", "Branch"}

Submission(id, kind) == [id |-> id, kind |-> kind]

Frame(sub, seqno) == [id |-> sub.id, kind |-> sub.kind, seq |-> seqno]

CurSeq == [inflight |-> inflight, queue |-> queue, txn |-> txn, wire |-> wire]

SetSeq(S) ==
  /\ inflight' = S.inflight
  /\ queue' = S.queue
  /\ txn' = S.txn
  /\ wire' = S.wire

\* Issue a transaction: hand its frame to the transport and take the next
\* transaction number.
Issue(S, sub) ==
  [S EXCEPT !.inflight = <<sub>>,
            !.txn = (S.txn + 1) % TxnModulus,
            !.wire = S.wire \cup {Frame(sub, S.txn)}]

\* A submission that is sent whether or not a transaction is in flight.
SeqSubmit_SendAlways(S, sub) == Issue(S, sub)

\* A submission: sent at once when idle, queued otherwise.
SeqSubmit(S, sub) ==
  IF S.inflight = <<>>
    THEN Issue(S, sub)
    ELSE [S EXCEPT !.queue = Append(S.queue, sub)]

\* What the transport delivers for a frame: an I/O error, a timeout, or a
\* reply with its response type and payload.  For a Branch the payload stands
\* for the UIDs that answered.
Outcomes ==
  { [error |-> "I/O error", response_type |-> ACK, data |-> <<>>],
    [error |-> "Request timed out", response_type |-> ACK, data |-> <<>>],
    [error |-> "", response_type |-> ACK, data |-> <<>>],
    [error |-> "", response_type |-> ACK, data |-> <<1>>],
    [error |-> "", response_type |-> NACK_REASON, data |-> <<0, 1>>] }

\* The outcome of a Branch: nothing heard, exactly one well-formed UID, or
\* anything else (a collision).
BranchStatus(out) ==
  IF out.error # "" THEN TRANSPORT_ERROR
  ELSE IF Len(out.data) = 1 THEN VALID_RESPONSE
  ELSE MALFORMED_RESPONSE

\* The status a completed transaction's continuation is run with.
CompletionStatus(kind, out) ==
  IF kind = "Branch"
    THEN BranchStatus(out)
    ELSE ResponseStatus([error |-> out.error,
                         was_broadcast |-> AddressedAsBroadcast(kind),
                         response_type |-> out.response_type],
                        out.data).type

Done(sub, st) == [id |-> sub.id, kind |-> sub.kind, status |-> st]

\* A completion that leaves the queue for the caller to drive.
SeqComplete_NoAdvance(S, out) ==
  LET t == S.inflight[1]
  IN [seq |-> [S EXCEPT !.inflight = <<>>,
                        !.wire = {f \in S.wire : f.id # t.id}],
      done |-> <<Done(t, CompletionStatus(t.kind, out))>>]

\* The transport answers the in-flight transaction: it is completed, the next
\* pending submission (if any) is issued, and the continuation is run.
SeqComplete(S, out) ==
  LET t == S.inflight[1]
      S1 == [S EXCEPT !.inflight = <<>>,
                      !.wire = {f \in S.wire : f.id # t.id}]
      S2 == IF S1.queue # <<>>
              THEN Issue([S1 EXCEPT !.queue = Tail(S1.queue)], Head(S1.queue))
              ELSE S1
  IN [seq |-> S2, done |-> <<Done(t, CompletionStatus(t.kind, out))>>]

\* A detach that completes the queued submissions and forgets the one in
\* flight, which a later reply then completes.
SeqDetach_KeepInflight(S) ==
  [seq |-> [S EXCEPT !.queue = <<>>],
   done |-> [i \in 1..Len(S.queue) |-> Done(S.queue[i], TRANSPORT_ERROR)]]

\* The transport reports the device gone: the in-flight and the queued
\* submissions are completed with TransportError, in submission order.
SeqDetach(S) ==
  LET pending == S.inflight \o S.queue
  IN [seq |-> [S EXCEPT !.inflight = <<>>, !.queue = <<>>],
      done |-> [i \in 1..Len(pending) |-> Done(pending[i], TRANSPORT_ERROR)]]

InitSeq ==
  /\ SeqIdle
  /\ HttpIdle
  /\ HandlersIdle
  /\ ApiIdle
  /\ DiscIdle

Submit(kind) ==
  /\ ~detached
  /\ next_id <= MaxSubmissions
  /\ SetSeq(SeqSubmit(CurSeq, Submission(next_id, kind)))
  /\ next_id' = next_id + 1
  /\ UNCHANGED <<completions, detached, handlerVars, apiVars, discVars,
                 httpVars>>

Complete(out) ==
  /\ inflight # <<>>
  /\ LET r == SeqComplete(CurSeq, out)
     IN /\ SetSeq(r.seq)
        /\ completions' = completions \o r.done
  /\ UNCHANGED <<next_id, detached, handlerVars, apiVars, discVars,
                 httpVars>>

Detach ==
  /\ ~detached
  /\ detached' = TRUE
  /\ LET r == SeqDetach(CurSeq)
     IN /\ SetSeq(r.seq)
        /\ completions' = completions \o r.done
  /\ UNCHANGED <<next_id, handlerVars, apiVars, discVars, httpVars>>

\* A reply or timeout for a frame whose transaction is no longer in flight.
LateAnswer ==
  /\ inflight = <<>>
  /\ wire # {}
  /\ \E f \in wire : wire' = wire \ {f}
  /\ UNCHANGED <<inflight, queue, txn, completions, next_id, detached,
                 handlerVars, apiVars, discVars, httpVars>>

NextSeq ==
  \/ \E kind \in Kinds : Submit(kind)
  \/ \E out \in Outcomes : Complete(out)
  \/ Detach
  \/ LateAnswer

SpecSeq == InitSeq /\ [][NextSeq]_vars

(***************************************************************************)
(* C1: at most one transaction is in flight at any time: at most one frame *)
(* is with the transport, it is the in-flight transaction's, and a         *)
(* submission made meanwhile waits in the queue without being sent.        *)
(***************************************************************************)
C1_OneInFlight ==
  /\ Cardinality(wire) <= 1
  /\ Len(inflight) <= 1
  /\ \A f \in wire : inflight # <<>> => f.id = inflight[1].id
  /\ \A i \in DOMAIN queue :
       /\ inflight # <<>>
       /\ \A f \in wire : f.id # queue[i].id

\* Two submissions wait in the queue behind the transaction in flight.
C1_Witness ==
  /\ inflight # <<>>
  /\ Len(queue) = 2
  /\ Cardinality(wire) = 1

(***************************************************************************)
(* C4: a detach with one transaction in flight and k submissions queued    *)
(* runs each of the k+1 continuations with TransportError, in submission   *)
(* order, and leaves the queue empty and nothing in flight; and no         *)
(* continuation is ever run twice, whatever arrives later.                 *)
(***************************************************************************)
IsDetachStep == ~detached /\ detached'

C4_DetachDrains ==
  /\ [](\A i, j \in DOMAIN completions :
          i < j => completions[i].id < completions[j].id)
  /\ [](detached => inflight = <<>> /\ queue = <<>>)
  /\ [][IsDetachStep =>
          LET pending == inflight \o queue
          IN /\ Len(completions') = Len(completions) + Len(pending)
             /\ \A i \in DOMAIN pending :
                  completions'[Len(completions) + i] =
                    [id |-> pending[i].id, kind |-> pending[i].kind,
                     status |-> TRANSPORT_ERROR]
             /\ \A i \in DOMAIN completions : completions'[i] = completions[i]
       ]_vars

\* One transaction was issued, a detach completed it and the two submissions
\* queued behind it, and the transport's late answer has since arrived.
C4_Witness ==
  /\ detached
  /\ txn = 1
  /\ wire = {}
  /\ Len(completions) = 3
  /\ \A i \in DOMAIN completions : completions[i].status = TRANSPORT_ERROR

(***************************************************************************)
(* The discovery engine: the iterative Discover-Unique-Branch walk over    *)
(* the UID space, driven through the sequencer, and the bus it probes.     *)
(***************************************************************************)
\* The width of a UID in the model (48 in the protocol) and the largest
\* number of devices on the bus.
UidBits == 3
MaxDevices == 3

\* The largest number of devices on a bus with a misbehaving device.
MaxAdvDevices == 2

\* The largest non-broadcast UID.
MaxUID == 2 ^ UidBits - 2
AllUIDs == 0..MaxUID

DeviceSets == {D \in SUBSET AllUIDs : Cardinality(D) <= MaxDevices}

Range(lower, upper, depth) == [lower |-> lower, upper |-> upper, depth |-> depth]

\* A bisection that loses the upper half.
Bisect_LowerOnly(r) ==
  <<Range(r.lower, r.lower + (r.upper - r.lower) \div 2, r.depth + 1)>>

\* [lower, mid] and [mid + 1, upper], mid = lower + (upper - lower) / 2
Bisect(r) ==
  LET mid == r.lower + (r.upper - r.lower) \div 2
  IN <<Range(r.lower, mid, r.depth + 1), Range(mid + 1, r.upper, r.depth + 1)>>

\* Step 3: ranges with lower > upper are skipped.
RECURSIVE SkipEmpty(_)
SkipEmpty(rs) ==
  IF rs = <<>> THEN rs
  ELSE IF rs[Len(rs)].lower > rs[Len(rs)].upper
    THEN SkipEmpty(SubSeq(rs, 1, Len(rs) - 1))
    ELSE rs

\* The elements of a set of UIDs in increasing order.
RECURSIVE SortedSeq(_)
SortedSeq(U) ==
  IF U = {} THEN <<>>
  ELSE LET m == CHOOSE u \in U : \A v \in U : u <= v
       IN <<m>> \o SortedSeq(U \ {m})

\* The devices that answer a Branch of range r: those unmuted and inside it.
Responders(r) == {u \in devices \ muted : r.lower <= u /\ u <= r.upper}

\* What the transport delivers for a Branch of range r.
BranchOutcome(r) ==
  IF Responders(r) = {}
    THEN [error |-> "Request timed out", response_type |-> ACK, data |-> <<>>]
    ELSE [error |-> "", response_type |-> ACK,
          data |-> SortedSeq(Responders(r))]

\* What the transport delivers for a Mute of device u.
MuteOutcomes(u) ==
  IF u \in deaf
    THEN { [error |-> "Request timed out", response_type |-> ACK,
            data |-> <<>>],
           [error |-> "", response_type |-> NACK_REASON, data |-> <<>>] }
    ELSE { [error |-> "", response_type |-> ACK, data |-> <<>>] }

\* What the transport delivers for an UnMuteAll.
UnMuteOutcomes ==
  {[error |-> "", response_type |-> t, data |-> <<>>] : t \in ResponseTypes}
  \cup (IF faulty
          THEN {[error |-> "I/O error", response_type |-> ACK, data |-> <<>>]}
          ELSE {})

\* Steps 3 and 5: pop the next range and send its Branch, or finish and
\* deliver the discovered set when no range is left.
Proceed(S, rs, fnd) ==
  LET live == SkipEmpty(rs)
  IN IF live = <<>>
       THEN /\ SetSeq(S)
            /\ ranges' = <<>>
            /\ cur' = <<>>
            /\ dstate' = "done"
            /\ result' = fnd
       ELSE /\ SetSeq(SeqSubmit(S, Submission(0, "Branch")))
            /\ ranges' = SubSeq(live, 1, Len(live) - 1)
            /\ cur' = <<live[Len(live)]>>
            /\ dstate' = "branching"
            /\ result' = result

\* Steps 1 and 2.
RunFullDiscovery ==
  /\ dstate = "idle"
  /\ SetSeq(SeqSubmit(CurSeq, Submission(0, "UnMuteAll")))
  /\ ranges' = <<Range(0, MaxUID, 0)>>
  /\ found' = {}
  /\ dstate' = "unmuting"
  /\ UNCHANGED <<devices, muted, deaf, cur, target, result, unmute_error,
                 last_done, faulty, completions, next_id, detached,
                 handlerVars, apiVars, httpVars>>

UnMuteAllComplete ==
  /\ dstate = "unmuting"
  /\ inflight # <<>>
  /\ \E out \in UnMuteOutcomes :
       LET r == SeqComplete(CurSeq, out)
       IN /\ muted' = IF out.error = "" THEN {} ELSE muted
          /\ unmute_error' = (r.done[1].status = TRANSPORT_ERROR)
          /\ last_done' = r.done
          /\ Proceed(r.seq, ranges, found)
  /\ UNCHANGED <<devices, deaf, found, target, faulty, completions, next_id,
                 detached, handlerVars, apiVars, httpVars>>

\* Step 4.
BranchComplete ==
  /\ dstate = "branching"
  /\ inflight # <<>>
  /\ LET out == BranchOutcome(cur[1])
         r == SeqComplete(CurSeq, out)
         st == r.done[1].status
     IN /\ last_done' = r.done
        /\ IF st = TRANSPORT_ERROR
             THEN /\ Proceed(r.seq, ranges, found)
                  /\ UNCHANGED <<found, target>>
           ELSE IF st = VALID_RESPONSE
             THEN /\ found' = found \cup {out.data[1]}
                  /\ target' = <<out.data[1]>>
                  /\ SetSeq(SeqSubmit(r.seq, Submission(0, "Mute")))
                  /\ dstate' = "muting"
                  /\ UNCHANGED <<ranges, cur, result>>
           ELSE IF cur[1].lower = cur[1].upper
             THEN /\ Proceed(r.seq, ranges, found)
                  /\ UNCHANGED <<found, target>>
             ELSE /\ Proceed(r.seq, ranges \o Bisect(cur[1]), found)
                  /\ UNCHANGED <<found, target>>
  /\ UNCHANGED <<devices, muted, deaf, unmute_error, faulty, completions,
                 next_id, detached, handlerVars, apiVars, httpVars>>

\* Whatever the Mute's outcome, the same range is pushed again.
MuteComplete ==
  /\ dstate = "muting"
  /\ inflight # <<>>
  /\ \E out \in MuteOutcomes(target[1]) :
       LET r == SeqComplete(CurSeq, out)
       IN /\ muted' = IF target[1] \in deaf THEN muted
                      ELSE muted \cup {target[1]}
          /\ last_done' = r.done
          /\ target' = <<>>
          /\ Proceed(r.seq, Append(ranges, cur[1]), found)
  /\ UNCHANGED <<devices, deaf, found, unmute_error, faulty, completions,
                 next_id, detached, handlerVars, apiVars, httpVars>>

NextDisc ==
  \/ RunFullDiscovery
  \/ UnMuteAllComplete
  \/ BranchComplete
  \/ MuteComplete

\* A bus whose devices all obey Mute and whose transport does not fail.
InitDisc ==
  /\ devices \in DeviceSets
  /\ muted \in {{}, devices}
  /\ deaf = {}
  /\ faulty = FALSE
  /\ ranges = <<>>
  /\ found = {}
  /\ dstate = "idle"
  /\ cur = <<>>
  /\ target = <<>>
  /\ result = {}
  /\ unmute_error = FALSE
  /\ last_done = <<>>
  /\ SeqIdle
  /\ HttpIdle
  /\ HandlersIdle
  /\ ApiIdle

\* A bus on which at most one device never mutes and an UnMuteAll may fail.
InitDiscAdv ==
  /\ devices \in {D \in DeviceSets : Cardinality(D) <= MaxAdvDevices}
  /\ muted = {}
  /\ deaf \in {D \in SUBSET devices : Cardinality(D) <= 1}
  /\ faulty = TRUE
  /\ ranges = <<>>
  /\ found = {}
  /\ dstate = "idle"
  /\ cur = <<>>
  /\ target = <<>>
  /\ result = {}
  /\ unmute_error = FALSE
  /\ last_done = <<>>
  /\ SeqIdle
  /\ HttpIdle
  /\ HandlersIdle
  /\ ApiIdle

\* The transport answers every frame it is handed, by a reply or a timeout,
\* and the event loop dispatches it.
SpecDisc == InitDisc /\ [][NextDisc]_vars /\ WF_vars(NextDisc)

SpecDiscAdv == InitDiscAdv /\ [][NextDisc]_vars /\ WF_vars(NextDisc)

(***************************************************************************)
(* C2: on a bus of well-behaved devices with distinct UIDs, full discovery *)
(* terminates and delivers exactly the devices' UIDs, and no range is      *)
(* bisected more often than a UID has bits.                                *)
(***************************************************************************)
C2_DiscoveryFindsAll ==
  /\ <>(dstate = "done")
  /\ [](dstate = "done" => result = devices)
  /\ [](\A i \in DOMAIN ranges : ranges[i].depth <= UidBits)
  /\ [](\A i \in DOMAIN cur : cur[i].depth <= UidBits)

\* Discovery has finished on a bus of three devices, two of them next to
\* each other, and found them all.
C2_Witness ==
  /\ dstate = "done"
  /\ Cardinality(devices) = 3
  /\ \E u \in devices : u + 1 \in devices
  /\ result = devices

(***************************************************************************)
(* C3: discovery terminates for every device population, also when the     *)
(* Mute sent after a single-UID Branch reply fails and the device stays    *)
(* unmuted.                                                                *)
(***************************************************************************)
C3_DiscoveryTerminates == <>(dstate = "done")

IdStrings == {"", "x", "1"}
UidStrings == {"", "7a70", "7a70:00000001"}

\* StringToUInt(uni_id, universe_id)
StringToUInt(str) ==
  IF str = "1" THEN [ret |-> TRUE, value |-> 1]
  ELSE [ret |-> FALSE, value |-> 0]

\* UID::FromString(uid_string): a new UID, or NULL (<<>>) when the string is
\* not "<manufacturer>:<device>" in hex.
UIDFromString(str) ==
  IF str = "7a70:00000001" THEN <<UnicastUID>> ELSE <<>>

\* RDMHttpModule::CheckForInvalidId
CheckForInvalidId(request) ==
  LET r == StringToUInt(request.id)
  IN [ret |-> r.ret, universe_id |-> r.value]

\* RDMHttpModule::CheckForInvalidUid(request, UID **uid).  The test
\* `uid == NULL` is on the out-parameter, which is the address of the caller's
\* local variable and never NULL; the parsed pointer *uid is not tested.
CheckForInvalidUid(request) ==
  LET parsed == UIDFromString(request.uid)
      out_parameter_is_null == FALSE
  IN IF out_parameter_is_null
       THEN [ret |-> FALSE, uid |-> parsed]
       ELSE [ret |-> TRUE, uid |-> parsed]

\* What a handler did: the response served ("not-found", "error",
\* "respond-with-error", "yes" for MHD_YES with an RDM request under way,
\* "crash"), the value of CheckForInvalidUid where it ran, and whether a NULL
\* UID was dereferenced.
JsonResponse(served, uid_check, null_used) ==
  [served |-> served, uid_check |-> uid_check, null_used |-> null_used]

\* Dereferencing a NULL UID* is undefined: the process may stop there, or go
\* on with whatever is read at address 0.
NullUidOutcomes == {"crash", "garbage"}

\* The part of a handler from `*uid` on: served is the response when the
\* handler goes on.
UseUid(uid_check, served, ub) ==
  IF uid_check.uid = <<>>
    THEN JsonResponse(IF ub = "crash" THEN "crash" ELSE served,
                      <<uid_check.ret>>, TRUE)
    ELSE JsonResponse(served, <<uid_check.ret>>, FALSE)

\* JsonSupportedPIDs and JsonSupportedSections: both checks, then
\* GetSupportedParameters(universe_id, *uid, ...).
JsonSupportedPIDs(request, ub) ==
  IF ~CheckForInvalidId(request).ret
    THEN JsonResponse("not-found", <<>>, FALSE)
    ELSE LET c == CheckForInvalidUid(request)
         IN IF ~c.ret
              THEN JsonResponse("not-found", <<c.ret>>, FALSE)
              ELSE UseUid(c, IF request.backend_ok THEN "yes" ELSE "error",
                          ub)

JsonSupportedSections(request, ub) ==
  IF ~CheckForInvalidId(request).ret
    THEN JsonResponse("not-found", <<>>, FALSE)
    ELSE LET c == CheckForInvalidUid(request)
         IN IF ~c.ret
              THEN JsonResponse("not-found", <<c.ret>>, FALSE)
              ELSE UseUid(c, IF request.backend_ok THEN "yes" ELSE "error",
                          ub)

\* The section ids JsonSectionInfo and JsonSaveSectionInfo know.
InfoSections == {"device_info", "product_detail", "manufacturer_label",
                 "device_label", "language", "dmx_address", "identify"}
SaveSections == {"device_label", "language", "dmx_address", "identify"}

JsonSectionInfo(request, ub) ==
  IF ~CheckForInvalidId(request).ret
    THEN JsonResponse("not-found", <<>>, FALSE)
    ELSE LET c == CheckForInvalidUid(request)
         IN IF ~c.ret
              THEN JsonResponse("not-found", <<c.ret>>, FALSE)
              ELSE IF request.section \in InfoSections
                THEN UseUid(c, IF request.backend_ok THEN "yes" ELSE "error",
                            ub)
                ELSE JsonResponse("not-found", <<c.ret>>, FALSE)

JsonSaveSectionInfo(request, ub) ==
  IF ~CheckForInvalidId(request).ret
    THEN JsonResponse("not-found", <<>>, FALSE)
    ELSE LET c == CheckForInvalidUid(request)
         IN IF ~c.ret
              THEN JsonResponse("not-found", <<c.ret>>, FALSE)
              ELSE IF request.section \in SaveSections
                THEN UseUid(c, IF request.backend_ok THEN "yes"
                               ELSE "respond-with-error", ub)
                ELSE JsonResponse("not-found", <<c.ret>>, FALSE)

\* The section parameters tried.
SectionStrings == {"", "device_info", "device_label"}

JsonRequests ==
  [handler : {None}, id : IdStrings, uid : UidStrings,
   section : SectionStrings, backend_ok : BOOLEAN]

InitJson ==
  /\ json_req \in JsonRequests
  /\ json_resp = None
  /\ m_universe_uids = <<>>
  /\ outstanding = EmptyBag
  /\ HandlersIdle
  /\ ApiIdle
  /\ SeqIdle
  /\ DiscIdle

\* The HTTP server runs handler name on the request, which answers r.
Serve(name, r) ==
  /\ json_req.handler = None
  /\ json_req' = [json_req EXCEPT !.handler = name]
  /\ json_resp' = r
  /\ UNCHANGED <<m_universe_uids, outstanding, handlerVars, apiVars, seqVars,
                 discVars>>

ServeJsonSupportedPIDs ==
  \E ub \in NullUidOutcomes :
    Serve("JsonSupportedPIDs", JsonSupportedPIDs(json_req, ub))
ServeJsonSupportedSections ==
  \E ub \in NullUidOutcomes :
    Serve("JsonSupportedSections", JsonSupportedSections(json_req, ub))
ServeJsonSectionInfo ==
  \E ub \in NullUidOutcomes :
    Serve("JsonSectionInfo", JsonSectionInfo(json_req, ub))
ServeJsonSaveSectionInfo ==
  \E ub \in NullUidOutcomes :
    Serve("JsonSaveSectionInfo", JsonSaveSectionInfo(json_req, ub))

NextJson ==
  \/ ServeJsonSupportedPIDs
  \/ ServeJsonSupportedSections
  \/ ServeJsonSectionInfo
  \/ ServeJsonSaveSectionInfo

SpecJson == InitJson /\ [][NextJson]_vars

(***************************************************************************)
(* C26: when the uid parameter is missing or does not parse,               *)
(* CheckForInvalidUid returns false, so the four handlers answer not-found *)
(* and never use a NULL UID; it returns true only when a UID was made.     *)
(***************************************************************************)
C26_InvalidUidIsNotFound ==
  (/\ json_req.handler # None
   /\ CheckForInvalidId(json_req).ret) =>
    /\ json_resp.uid_check = <<UIDFromString(json_req.uid) # <<>> >>
    /\ ~json_resp.null_used
    /\ UIDFromString(json_req.uid) = <<>> => json_resp.served = "not-found"

(***************************************************************************)
(* The RDM HTTP module: resolution of the manufacturer and device labels   *)
(* of the UIDs of each universe, one request after the other.              *)
(***************************************************************************)
MaxPending == 4
MaxOutstanding == 2

Universes == {1, 2}
SecondUID == [esta |-> 31344, device |-> <<0, 2>>]
\* The UIDs on a universe, in the order a UIDSet iterates over them.
UidOrder == <<UnicastUID, SecondUID>>
UidSets == SUBSET {UnicastUID, SecondUID}

RESOLVE_MANUFACTURER == "RESOLVE_MANUFACTURER"
RESOLVE_DEVICE == "RESOLVE_DEVICE"

\* A label request the RDM API accepted, with the arguments bound to its
\* callback.
LabelRequest(universe, uid, action) ==
  [universe |-> universe, uid |-> uid, action |-> action]

OutstandingFor(universe) ==
  {r \in BagToSet(outstanding) : r.universe = universe}

\* GetUniverseUidsOrCreate: the map with a state for universe.
GetUniverseUidsOrCreate(map, universe) ==
  IF universe \in DOMAIN map
    THEN map
    ELSE [u \in DOMAIN map \cup {universe} |->
            IF u = universe
              THEN [resolved_uids |-> <<>>, pending_uids |-> <<>>,
                    uid_resolution_running |-> FALSE, active |-> TRUE]
              ELSE map[u]]

\* The loop of ResolveNextUID on one universe's state.  The first `fails`
\* requests are refused by the RDM API (sent_request = false); each attempt
\* pops its entry.
RECURSIVE ResolveLoop(_, _, _)
ResolveLoop(universe, uid_state, fails) ==
  IF Len(uid_state.pending_uids) = 0
    THEN [state |-> [uid_state EXCEPT !.uid_resolution_running = FALSE],
          sent |-> {}]
    ELSE LET front == Head(uid_state.pending_uids)
             next == [uid_state EXCEPT !.uid_resolution_running = TRUE,
                                       !.pending_uids = Tail(@)]
         IN IF fails = 0
              THEN [state |-> next,
                    sent |-> {LabelRequest(universe, front[1], front[2])}]
              ELSE ResolveLoop(universe, next, fails - 1)

\* RDMHttpModule::ResolveNextUID(universe_id): the map and the outstanding
\* requests afterwards.
ResolveNextUID(map, out, universe, fails) ==
  IF universe \notin DOMAIN map
    THEN [map |-> map, out |-> out]
    ELSE LET r == ResolveLoop(universe, map[universe], fails)
         IN [map |-> [map EXCEPT ![universe] = r.state],
             out |-> out (+) SetToBag(r.sent)]

\* The entries HandleUIDList pushes for the UIDs it does not know yet.
RECURSIVE NewPending(_, _, _)
NewPending(order, uids, known) ==
  IF order = <<>> THEN <<>>
  ELSE (IF Head(order) \in uids /\ Head(order) \notin known
          THEN <<<<Head(order), RESOLVE_MANUFACTURER>>,
                 <<Head(order), RESOLVE_DEVICE>>>>
          ELSE <<>>) \o NewPending(Tail(order), uids, known)

\* RDMHttpModule::HandleUIDList(response, universe_id, uids, error)
HandleUIDList(map, out, universe_id, uids, error, fails) ==
  IF error # ""
    THEN [map |-> map, out |-> out]
    ELSE LET created == GetUniverseUidsOrCreate(map, universe_id)
             uid_state == created[universe_id]
             known == DOMAIN uid_state.resolved_uids
             resolved == [u \in uids |->
                            IF u \in known
                              THEN [uid_state.resolved_uids[u]
                                      EXCEPT !.active = TRUE]
                              ELSE [manufacturer |-> "", device |-> "",
                                    active |-> TRUE]]
             after == [uid_state EXCEPT
                         !.resolved_uids = resolved,
                         !.pending_uids = @ \o NewPending(UidOrder, uids,
                                                          known)]
             stored == [created EXCEPT ![universe_id] = after]
         IN IF ~after.uid_resolution_running
              THEN ResolveNextUID(stored, out, universe_id, fails)
              ELSE [map |-> stored, out |-> out]

\* RDMHttpModule::PruneUniverseList(universes): the states of the universes
\* that are not in the list are deleted.
PruneUniverseList(map, universes) ==
  [u \in DOMAIN map \cap universes |-> [map[u] EXCEPT !.active = TRUE]]

\* UpdateUIDManufacturerLabel / UpdateUIDDeviceLabel: the callback of the
\* request req runs with an RDM status (success or not) and a label.
UpdateUIDLabel(map, out, req, success, label, fails) ==
  IF req.universe \notin DOMAIN map
    THEN [map |-> map, out |-> out]
    ELSE LET uid_state == map[req.universe]
             field == IF req.action = RESOLVE_MANUFACTURER
                        THEN "manufacturer" ELSE "device"
             updated ==
               IF success /\ req.uid \in DOMAIN uid_state.resolved_uids
                 THEN [map EXCEPT
                         ![req.universe].resolved_uids[req.uid][field] = label]
                 ELSE map
         IN ResolveNextUID(updated, out, req.universe, fails)

InitResolve ==
  /\ HttpIdle
  /\ HandlersIdle
  /\ ApiIdle
  /\ SeqIdle
  /\ DiscIdle

SetResolve(r) ==
  /\ m_universe_uids' = r.map
  /\ outstanding' = r.out
  /\ UNCHANGED <<json_req, json_resp, handlerVars, apiVars, seqVars,
                 discVars>>

\* The UID list of a universe arrives from the server.
UIDListArrives ==
  \E universe_id \in Universes, uids \in UidSets,
     error \in {"", "failed"}, fails \in 0..MaxPending :
    LET r == HandleUIDList(m_universe_uids, outstanding, universe_id, uids,
                           error, fails)
    IN /\ BagCardinality(outstanding) < MaxOutstanding
       /\ universe_id \in DOMAIN r.map =>
            Len(r.map[universe_id].pending_uids) <= MaxPending
       /\ SetResolve(r)

\* A new list of active universes arrives.
UniverseListArrives ==
  \E universes \in SUBSET Universes :
    SetResolve([map |-> PruneUniverseList(m_universe_uids, universes),
                out |-> outstanding])

\* The answer to an outstanding manufacturer-label request arrives.
ManufacturerLabelArrives ==
  \E req \in BagToSet(outstanding), success \in BOOLEAN,
     fails \in 0..MaxPending :
    /\ req.action = RESOLVE_MANUFACTURER
    /\ SetResolve(UpdateUIDLabel(m_universe_uids,
                                 outstanding (-) SetToBag({req}), req,
                                 success, "m", fails))

\* The answer to an outstanding device-label request arrives.
DeviceLabelArrives ==
  \E req \in BagToSet(outstanding), success \in BOOLEAN,
     fails \in 0..MaxPending :
    /\ req.action = RESOLVE_DEVICE
    /\ SetResolve(UpdateUIDLabel(m_universe_uids,
                                 outstanding (-) SetToBag({req}), req,
                                 success, "d", fails))

NextResolve ==
  \/ UIDListArrives
  \/ UniverseListArrives
  \/ ManufacturerLabelArrives
  \/ DeviceLabelArrives

SpecResolve == InitResolve /\ [][NextResolve]_vars

\* The number of requests outstanding for a universe.
OutstandingCount(universe) ==
  BagCardinality([r \in OutstandingFor(universe) |-> outstanding[r]])

(***************************************************************************)
(* C30: at most one label request is outstanding per universe, and a       *)
(* universe whose uid_resolution_running is false and that has no request  *)
(* outstanding has an empty pending queue.                                 *)
(***************************************************************************)
C30_OneResolutionPerUniverse ==
  \A u \in Universes :
    /\ OutstandingCount(u) <= 1
    /\ (/\ u \in DOMAIN m_universe_uids
        /\ ~m_universe_uids[u].uid_resolution_running
        /\ OutstandingCount(u) = 0) =>
         m_universe_uids[u].pending_uids = <<>>

=============================================================================
